---- MODULE Spec2Model ----
(***************************************************************************)
(* The stack-pool-allocation pass (TemporariesPoolAllocatorTransformation) *)
(* of loki, as exercised by                                                *)
(* src/loki/transformations/tests/test_pool_allocator.py.                  *)
(*                                                                         *)
(* The pass visits the routines of a call tree, callees before callers.    *)
(* A kernel gets the stack formal parameters, its pool temporaries are     *)
(* overlaid on addresses carved from the running base, its size is         *)
(* published in trafo_data and its calls are threaded; the driver gets the *)
(* buffer, its size and the per-iteration seed.                            *)
(*                                                                         *)
(* The implementation module loki/transformations/pool_allocator.py is not *)
(* part of src/: the operators below follow the assertions of the test     *)
(* file wherever a test pins the output of the pass, and the design        *)
(* document otherwise.                                                     *)
(***************************************************************************)
EXTENDS Bags, FiniteSets, Integers, Sequences, TLC

VARIABLES
    config,      \* options of the transformation instance
    prog,        \* the parsed source: routine name -> declarations and body
    ir,          \* the (rewritten) routine: arguments, variables, overlays, body
    trafo_data,  \* the side table: routine name -> published frame
    visited,     \* routines in the order in which the scheduler processed them
    log,         \* warnings logged so far
    frames,      \* run of the generated code: the activations, innermost last
    events,      \* run of the generated code: the calls and returns so far
    status,      \* run of the generated code: "idle", "running", "done", "stopped"
    par,         \* run with parallel block loops: the threads and what they carved
    bld          \* Lib.build and Obj.build: objects, tasks, position, what was done

vars == <<config, prog, ir, trafo_data, visited, log, frames, events, status, par, bld>>

\* What the pass works on, and what a run of the generated code works on.
passvars == <<config, prog, ir, trafo_data, visited, log>>
runvars == <<frames, events, status>>
othervars == <<par, bld>>

\* Longest list of local declarations enumerated for a kernel.
MaxLocals == 2

\* How often the pass is applied to one routine at most.
MaxRuns == 2

Routines == {"driver", "kernel", "kernel2", "inline_kernel"}
Kernels == {"kernel", "kernel2", "inline_kernel"}

(***************************************************************************)
(* Names                                                                   *)
(***************************************************************************)

\* The names of the n-th local declaration and of its address variable
\* (local_ptr_var_name_pattern 'ip_<name>').
TmpName == <<"tmp1", "tmp2", "tmp3", "tmp4", "tmp5", "tmp6">>
PtrName == <<"ip_tmp1", "ip_tmp2", "ip_tmp3", "ip_tmp4", "ip_tmp5", "ip_tmp6">>

StackArgL == "ydstack_l"
StackArgU == "ydstack_u"

\* A working base that is the dummy argument itself.
StackVarLIsDummy == "ydstack_l"

StackVarL == "ylstack_l"
StackVarU == "ylstack_u"
StackStorage == "zstack"
StackSizeVar == "istsz"

\* Keyword names under which the stack is passed to a callee.
KwStackL == "YDSTACK_L"
KwStackU == "YDSTACK_U"
KwStorage == "ZSTACK"

\* The two dimension symbols of a routine: its horizontal and vertical size.
Dims(r) ==
    CASE r = "driver" -> <<"nlon", "nz">>
      [] r = "kernel" -> <<"klon", "klev">>
      [] r = "kernel2" -> <<"columns", "levels">>
      [] OTHER -> <<"jl", "jl">>

\* horizontal = Dimension(size='nlon', aliases=('klon', 'columns')).
HorizontalSizes == {"nlon", "klon", "columns"}

\* The dummy arguments of a routine as declared in the source.
Formals(r) ==
    IF r = "inline_kernel" THEN <<"jl">>
    ELSE IF r = "driver" THEN <<"nlon", "nz", "nb", "field1", "field2">>
    ELSE <<"start", "end", Dims(r)[1], Dims(r)[2], "field2", "opt_arg">>

\* The actual arguments a caller has at hand for a kernel's dummy arguments.
Actuals(caller) ==
    IF caller = "driver"
    THEN <<"1", "nlon", "nlon", "nz", "field2(:,:,b)", "opt">>
    ELSE <<"start", "end", Dims(caller)[1], Dims(caller)[2], "field2", "opt">>

(***************************************************************************)
(* Symbolic sizes                                                          *)
(***************************************************************************)

\* A variable occurrence: its name and the scope it is attached to.
Var(n, s) == [name |-> n, scope |-> s]

NoScope == "None"

\* The element size of a type: c_sizeof(<type>(.., kind=..)), clamped to a
\* floor of 8 bytes or not; NoSize where no element-size factor appears.
ElemSize(ty, cl) == [type |-> ty, clamp |-> cl]
NoSize == [type |-> "none", clamp |-> FALSE]

\* A monomial: an element size times a product of variables (a bag). A sum is
\* a bag of monomials, the multiplicity being the integer coefficient, so two
\* sums are equal exactly when they simplify to the same expression.
Mono(es, dimbag) == [es |-> es, dims |-> dimbag]

RECURSIVE SumCounts(_, _)
SumCounts(S, B) ==
    IF S = {} THEN 0
    ELSE LET x == CHOOSE y \in S : TRUE
         IN B[x] + SumCounts(S \ {x}, B)

\* The bag B with every element x replaced by f[x], multiplicities added up.
BagImage(B, f) ==
    LET img == {f[x] : x \in DOMAIN B}
    IN [y \in img |-> SumCounts({x \in DOMAIN B : f[x] = y}, B)]

\* The bag B with every multiplicity multiplied by k (k > 0).
BagScale(B, k) == [x \in DOMAIN B |-> k * B[x]]

\* A size expression: the maximum of the alternatives alts (each a sum), the
\* whole divided by the element size div (NoSize: not divided).
SizeExpr(alts, div) == [alts |-> alts, div |-> div]
ZeroSize == SizeExpr(<<EmptyBag>>, NoSize)

\* All variable occurrences of a size expression (FindVariables).
FindVariables(e) ==
    UNION {UNION {DOMAIN m.dims : m \in DOMAIN e.alts[i]} : i \in DOMAIN e.alts}

(***************************************************************************)
(* Declarations                                                            *)
(***************************************************************************)

\* An extent of a shape: coef * sym; sym = "" is a literal extent; const
\* says that sym is a named constant (a parameter).
Extent(c, s, k) == [coef |-> c, sym |-> s, const |-> k]

\* The kinds of local declaration enumerated for a kernel: real arrays of
\* extents (klon) and (klon, klev), an integer array (2*klon), a logical
\* array (klev), arrays of a literal extent and of a named-constant extent,
\* a pointer array and an array of derived type. LocalDecl knows three more:
\* "h2x2", a real array (2*klon, klev), "alloc", an allocatable array, and
\* "i1h", an integer array (klon).
LocalKinds == {"h1", "h2", "i2h", "lv", "lit", "par", "ptr", "dt"}

\* The local declaration of kind k in routine r.
LocalDecl(k, r) ==
    LET d1 == Dims(r)[1]
        d2 == Dims(r)[2]
        D(ty, sh, ptr, der) ==
            [type |-> ty, shape |-> sh, pointer |-> ptr, derived |-> der,
             allocatable |-> FALSE]
    IN CASE k = "h1" -> D("real", <<Extent(1, d1, FALSE)>>, FALSE, FALSE)
         [] k = "h2" -> D("real", <<Extent(1, d1, FALSE), Extent(1, d2, FALSE)>>, FALSE, FALSE)
         [] k = "h2x2" -> D("real", <<Extent(2, d1, FALSE), Extent(1, d2, FALSE)>>, FALSE, FALSE)
         [] k = "i2h" -> D("int", <<Extent(2, d1, FALSE)>>, FALSE, FALSE)
         [] k = "i1h" -> D("int", <<Extent(1, d1, FALSE)>>, FALSE, FALSE)
         [] k = "lv" -> D("logical", <<Extent(1, d2, FALSE)>>, FALSE, FALSE)
         [] k = "lit" -> D("real", <<Extent(2, "", FALSE)>>, FALSE, FALSE)
         [] k = "par" -> D("real", <<Extent(1, "nclv", TRUE)>>, FALSE, FALSE)
         [] k = "ptr" -> D("real", <<Extent(1, ":", FALSE)>>, TRUE, FALSE)
         [] k = "alloc" ->
              [D("real", <<Extent(1, ":", FALSE)>>, FALSE, FALSE) EXCEPT !.allocatable = TRUE]
         [] OTHER -> D("point", <<Extent(1, d1, FALSE)>>, FALSE, TRUE)

(***************************************************************************)
(* Statements and calls                                                    *)
(***************************************************************************)

\* A call: the callee, the positional actual arguments and the keyword
\* arguments (pairs <<dummy name, actual>>), as CallStatement.arguments and
\* CallStatement.kwarguments give them.
Call(n, a, kw) == [name |-> n, args |-> a, kwargs |-> kw]
NoCall == Call("", <<>>, <<>>)

\* A statement of a routine body. op is one of
\*   "use"     a statement of the source that reads or writes the array lhs
\*   "call"    a call statement
\*   "inline"  an assignment whose right-hand side holds an inline call
\*   "assign"  lhs = rhs, or lhs = rhs + expr when expr is not ZeroSize
\*   "guard"   IF (lhs > rhs) STOP
\*   "allocate", "deallocate", "do", "enddo" in the driver
Stmt(op, lhs, rhs, expr, call) ==
    [op |-> op, lhs |-> lhs, rhs |-> rhs, expr |-> expr, call |-> call]

Use(v) == Stmt("use", v, "", ZeroSize, NoCall)
Assign(l, r) == Stmt("assign", l, r, ZeroSize, NoCall)
Advance(l, e) == Stmt("assign", l, l, e, NoCall)
Guard == Stmt("guard", StackVarL, StackVarU, ZeroSize, NoCall)
CallStmt(c) == Stmt("call", "", "", ZeroSize, c)
InlineStmt(c) == Stmt("inline", "field1", "", ZeroSize, c)

\* A pragma: its keyword ("omp", "acc", "loki"), the construct it starts with
\* ("parallel", "do", "end", "stack-insert") and its clauses, a sequence of
\* pairs <<clause name, names in the clause>> as get_pragma_parameters
\* gives them.
Pragma(keyword, construct, clauses) ==
    [op |-> "pragma", lhs |-> keyword, rhs |-> construct, expr |-> ZeroSize,
     call |-> NoCall, clauses |-> clauses]

StackInsertPragma == Pragma("loki", "stack-insert", <<>>)

\* The dummy/actual pairs of a call (CallStatement.arg_iter): positional
\* arguments bind by position, keyword arguments by name.
ArgMap(c) ==
    LET f == Formals(c.name)
    IN {<<f[i], c.args[i]>> : i \in 1..Len(c.args)}
         \cup {c.kwargs[j] : j \in 1..Len(c.kwargs)}

(***************************************************************************)
(* Size Modeler                                                            *)
(***************************************************************************)

IsDimensionConstant(e) == e.sym = "" \/ e.const

\* An eligibility test that lets arrays of derived type through.
IsPoolTemporaryDerivedToo(d) ==
    /\ ~d.pointer
    /\ ~d.allocatable
    /\ ~(\A i \in 1..Len(d.shape) : IsDimensionConstant(d.shape[i]))

\* An eligibility test that lets pointer arrays through.
IsPoolTemporaryPointerToo(d) ==
    /\ ~d.derived
    /\ ~d.allocatable
    /\ ~(\A i \in 1..Len(d.shape) : IsDimensionConstant(d.shape[i]))

\* The locals that are moved to the pool: arrays that are no dummy argument,
\* not of derived type, not pointers, not allocatable and not of
\* compile-time constant shape.
IsPoolTemporary(d) ==
    /\ ~d.derived
    /\ ~d.pointer
    /\ ~d.allocatable
    /\ ~(\A i \in 1..Len(d.shape) : IsDimensionConstant(d.shape[i]))

\* The indices, in declaration order, of the pool temporaries of routine r.
PoolTemporaries(r) ==
    SelectSeq([i \in 1..Len(prog[r].locals) |-> i],
              LAMBDA i : IsPoolTemporary(LocalDecl(prog[r].locals[i], r)))

HasDerivedLocals(r) ==
    \E i \in 1..Len(prog[r].locals) : LocalDecl(prog[r].locals[i], r).derived

\* An element size that is clamped whatever the leading extent.
ElementSizeOfClamped(d) ==
    IF config.cray_ptr_loc_rhs THEN NoSize ELSE ElemSize(d.type, TRUE)

\* The element size used for a temporary: none in the element-counted mode;
\* otherwise c_sizeof, clamped by max(., 8) unless the leading extent is built
\* from the size of the configured horizontal dimension.
ElementSizeOf(d) ==
    IF config.cray_ptr_loc_rhs THEN NoSize
    ELSE ElemSize(d.type,
                  ~(config.horizontal /\ d.shape[1].sym \in HorizontalSizes))

RECURSIVE DimBag(_, _)
DimBag(shape, r) ==
    IF shape = <<>> THEN EmptyBag
    ELSE LET e == Head(shape)
         IN (IF e.sym = "" THEN EmptyBag ELSE SetToBag({Var(e.sym, r)}))
              (+) DimBag(Tail(shape), r)

RECURSIVE CoefProduct(_)
CoefProduct(shape) ==
    IF shape = <<>> THEN 1 ELSE Head(shape).coef * CoefProduct(Tail(shape))

\* A size modeler that multiplies by the leading extent only.
ArraySizeLeadingExtent(d, r) ==
    BagScale(SetToBag({Mono(ElementSizeOf(d), DimBag(<<d.shape[1]>>, r))}),
             d.shape[1].coef)

\* element_size * product of the extents of one temporary, its variables
\* attached to the scope of routine r.
ArraySize(d, r) ==
    BagScale(SetToBag({Mono(ElementSizeOf(d), DimBag(d.shape, r))}),
             CoefProduct(d.shape))

\* The sum of the sizes of the temporaries idxs of routine r.
RECURSIVE LocalStackSize(_, _)
LocalStackSize(idxs, r) ==
    IF idxs = <<>> THEN EmptyBag
    ELSE ArraySize(LocalDecl(prog[r].locals[Head(idxs)], r), r)
           (+) LocalStackSize(Tail(idxs), r)

\* DetachScopesMapper: the same expression with no variable attached to a scope.
DetachVar(v) == Var(v.name, NoScope)

DetachVars(dimbag) ==
    BagImage(dimbag, [v \in DOMAIN dimbag |-> DetachVar(v)])

DetachScopes(sum) ==
    BagImage(sum, [m \in DOMAIN sum |-> Mono(m.es, DetachVars(m.dims))])

\* A substitution that leaves the actual argument attached to the caller.
SubstVarAttached(v, c, caller) ==
    IF \E p \in ArgMap(c) : p[1] = v.name
    THEN Var((CHOOSE p \in ArgMap(c) : p[1] = v.name)[2], caller)
    ELSE v

\* SubstituteExpressions: the callee's dummy names replaced by the actual
\* arguments of call c made in routine caller; names that are no dummy
\* argument of the call stay as they are.
SubstVar(v, c, caller) ==
    IF \E p \in ArgMap(c) : p[1] = v.name
    THEN DetachVar(Var((CHOOSE p \in ArgMap(c) : p[1] = v.name)[2], caller))
    ELSE v

SubstituteExpressions(sum, c, caller) ==
    BagImage(sum,
             [m \in DOMAIN sum |->
                Mono(m.es, BagImage(m.dims, [v \in DOMAIN m.dims |-> SubstVar(v, c, caller)]))])

(***************************************************************************)
(* Call-Site Threader                                                      *)
(***************************************************************************)

\* The routines the pass was asked to transform as kernels.
Targets == {r \in Kernels : prog[r].present}

\* Stack arguments handed over with the bound ahead of the base.
StackKwargsBoundFirst(caller) ==
    (IF config.check_bounds THEN <<<<KwStackU, StackVarU>>>> ELSE <<>>)
      \o <<<<KwStackL, StackVarL>>>>
      \o (IF config.cray_ptr_loc_rhs
          THEN <<<<KwStorage, IF caller = "driver" THEN "zstack(:,b)" ELSE StackStorage>>>>
          ELSE <<>>)

\* Stack arguments that hand on what the caller received instead of its
\* working variables.
StackKwargsIncoming(caller) ==
    <<<<KwStackL, StackArgL>>>>
      \o (IF config.check_bounds THEN <<<<KwStackU, StackArgU>>>> ELSE <<>>)
      \o (IF config.cray_ptr_loc_rhs
          THEN <<<<KwStorage, IF caller = "driver" THEN "zstack(:,b)" ELSE StackStorage>>>>
          ELSE <<>>)

\* The keyword arguments that hand the stack to a callee; the buffer is
\* passed as the block's column in the driver and as it is in a kernel.
StackKwargs(caller) ==
    <<<<KwStackL, StackVarL>>>>
      \o (IF config.check_bounds THEN <<<<KwStackU, StackVarU>>>> ELSE <<>>)
      \o (IF config.cray_ptr_loc_rhs
          THEN <<<<KwStorage, IF caller = "driver" THEN "zstack(:,b)" ELSE StackStorage>>>>
          ELSE <<>>)

RECURSIVE Values(_)
Values(kw) == IF kw = <<>> THEN <<>> ELSE <<Head(kw)[2]>> \o Values(Tail(kw))

\* A threader that follows the style of the call: positional where the call
\* has no keyword argument.
ThreadCallByStyle(c, caller) ==
    IF c.name \in Targets
    THEN IF c.kwargs = <<>>
         THEN Call(c.name, c.args \o Values(StackKwargs(caller)), <<>>)
         ELSE Call(c.name, c.args, c.kwargs \o StackKwargs(caller))
    ELSE c

\* A call to a participating routine gets the stack arguments appended as
\* keyword arguments; any other call is left as it is.
ThreadCall(c, caller) ==
    IF c.name \in Targets
    THEN Call(c.name, c.args, c.kwargs \o StackKwargs(caller))
    ELSE c

\* A threader that rewrites call statements and overlooks inline calls.
ThreadStmtCallsOnly(s, caller) ==
    IF s.op = "call"
    THEN [s EXCEPT !.call = ThreadCall(s.call, caller)]
    ELSE s

ThreadStmt(s, caller) ==
    IF s.op \in {"call", "inline"}
    THEN [s EXCEPT !.call = ThreadCall(s.call, caller)]
    ELSE s

\* inject_pool_allocator_into_calls: every call statement and inline call of
\* the body.
ThreadBody(body, caller) == [i \in 1..Len(body) |-> ThreadStmt(body[i], caller)]

(***************************************************************************)
(* Frame Builder                                                           *)
(***************************************************************************)

\* The address given to a temporary: the running base, or in the
\* element-counted mode the address of the base's slot of the buffer.
BaseAddress ==
    IF config.cray_ptr_loc_rhs THEN "loc(zstack(ylstack_l))" ELSE StackVarL

\* A frame builder that guards the frame once instead of every temporary.
StackAllocationOneGuard(i, r) ==
    <<Assign(PtrName[i], BaseAddress),
      Advance(StackVarL,
              SizeExpr(<<ArraySize(LocalDecl(prog[r].locals[i], r), r)>>, NoSize))>>
      \o (IF config.check_bounds /\ i = Head(PoolTemporaries(r)) THEN <<Guard>> ELSE <<>>)

\* A frame builder that advances the base before it takes the address.
StackAllocationAdvanceFirst(i, r) ==
    <<Advance(StackVarL,
              SizeExpr(<<ArraySize(LocalDecl(prog[r].locals[i], r), r)>>, NoSize)),
      Assign(PtrName[i], BaseAddress)>>
      \o (IF config.check_bounds THEN <<Guard>> ELSE <<>>)

\* A frame builder that advances the dummy argument instead of the local
\* working base.
StackAllocationOnDummy(i, r) ==
    <<Assign(PtrName[i], BaseAddress),
      Advance(StackArgL,
              SizeExpr(<<ArraySize(LocalDecl(prog[r].locals[i], r), r)>>, NoSize))>>
      \o (IF config.check_bounds THEN <<Guard>> ELSE <<>>)

\* The "allocation" of temporary i of routine r: the address assignment, the
\* advance of the base by the temporary's size and, with bounds checking, the
\* overflow guard.
StackAllocation(i, r) ==
    <<Assign(PtrName[i], BaseAddress),
      Advance(StackVarL,
              SizeExpr(<<ArraySize(LocalDecl(prog[r].locals[i], r), r)>>, NoSize))>>
      \o (IF config.check_bounds THEN <<Guard>> ELSE <<>>)

RECURSIVE StackAllocations(_, _)
StackAllocations(idxs, r) ==
    IF idxs = <<>> THEN <<>>
    ELSE StackAllocation(Head(idxs), r) \o StackAllocations(Tail(idxs), r)

\* The copy of the incoming stack arguments into the local working variables.
StackCopy ==
    <<Assign(StackVarL, StackArgL)>>
      \o (IF config.check_bounds THEN <<Assign(StackVarU, StackArgU)>> ELSE <<>>)

\* The statements the Frame Builder puts at the head of the body of r.
FramePrologue(r) == StackCopy \o StackAllocations(PoolTemporaries(r), r)

\* Dummy arguments with the bound added whatever the options say.
StackFormalsAlwaysBound ==
    <<StackArgL, StackArgU>>
      \o (IF config.cray_ptr_loc_rhs THEN <<StackStorage>> ELSE <<>>)

\* The dummy arguments added to a kernel.
StackFormals ==
    <<StackArgL>>
      \o (IF config.check_bounds THEN <<StackArgU>> ELSE <<>>)
      \o (IF config.cray_ptr_loc_rhs THEN <<StackStorage>> ELSE <<>>)

StackLocals ==
    <<StackVarL>> \o (IF config.check_bounds THEN <<StackVarU>> ELSE <<>>)

\* pointer(ip_<tmp>, <tmp>) for every pool temporary.
Overlays(r) ==
    LET idxs == PoolTemporaries(r)
    IN [k \in 1..Len(idxs) |-> <<PtrName[idxs[k]], TmpName[idxs[k]]>>]

PtrVars(r) ==
    LET idxs == PoolTemporaries(r)
    IN [k \in 1..Len(idxs) |-> PtrName[idxs[k]]]

(***************************************************************************)
(* Published sizes                                                         *)
(***************************************************************************)

\* The call statements of the source body of r to participating routines.
TargetCalls(r) ==
    SelectSeq(prog[r].body, LAMBDA s : s.op = "call" /\ s.call.name \in Targets)

\* The published sizes of the routines called by the statements calls, one
\* alternative per call and per alternative of the callee, each with the
\* call's actual arguments substituted for the callee's dummy names.
RECURSIVE SuccessorSizes(_, _)
SuccessorSizes(calls, r) ==
    IF calls = <<>> THEN <<>>
    ELSE LET c == Head(calls).call
             a == trafo_data[c.name].stack_size.alts
         IN (IF trafo_data[c.name].published
             THEN [i \in 1..Len(a) |-> SubstituteExpressions(a[i], c, r)]
             ELSE <<>>)
              \o SuccessorSizes(Tail(calls), r)

\* A size that leaves out what the routine's callees need.
KernelStackSizeOwnOnly(r) ==
    SizeExpr(<<DetachScopes(LocalStackSize(PoolTemporaries(r), r))>>, NoSize)

\* _determine_stack_size for a kernel: its own size plus the size of what it
\* calls, free of scopes.
KernelStackSize(r) ==
    LET own == DetachScopes(LocalStackSize(PoolTemporaries(r), r))
        succ == SuccessorSizes(TargetCalls(r), r)
    IN SizeExpr(IF succ = <<>> THEN <<own>>
                ELSE [i \in 1..Len(succ) |-> own (+) succ[i]],
                NoSize)

\* The element size of the buffer zstack: real of the driver's real kind.
StackElemSize ==
    IF config.cray_ptr_loc_rhs THEN NoSize ELSE ElemSize("real", FALSE)

RECURSIVE SumOfSizes(_)
SumOfSizes(sizes) ==
    IF sizes = <<>> THEN EmptyBag ELSE Head(sizes) (+) SumOfSizes(Tail(sizes))

\* A root provisioner that adds up what its callees need.
DriverStackSizeSum ==
    SizeExpr(<<SumOfSizes(SuccessorSizes(TargetCalls("driver"), "driver"))>>,
             StackElemSize)

\* _determine_stack_size for the driver: the maximum over its direct calls,
\* in units of the buffer's element.
DriverStackSize ==
    LET succ == SuccessorSizes(TargetCalls("driver"), "driver")
    IN SizeExpr(IF succ = <<>> THEN <<EmptyBag>> ELSE succ, StackElemSize)

(***************************************************************************)
(* Root Provisioner                                                        *)
(***************************************************************************)

SeedL == IF config.cray_ptr_loc_rhs THEN "1" ELSE "loc(zstack(1, b))"
SeedU ==
    IF config.cray_ptr_loc_rhs THEN "ylstack_l + istsz"
    ELSE "ylstack_l + istsz * c_sizeof(real(1, kind=jprb))"

\* The seed of the working base and bound at the head of a block loop body.
StackSeed ==
    <<Assign(StackVarL, SeedL)>>
      \o (IF config.check_bounds THEN <<Assign(StackVarU, SeedU)>> ELSE <<>>)

\* The pragma keyword of the configured directive dialect.
DirectiveKeyword ==
    CASE config.directive = "openmp" -> "omp"
      [] config.directive = "openacc" -> "acc"
      [] OTHER -> "none"

ClauseNames(cl) == {cl[k][1] : k \in 1..Len(cl)}

\* Clauses in which private is set to the local stack variables alone.
SyncClausesOverwrite(cl) ==
    IF "private" \in ClauseNames(cl)
    THEN [k \in 1..Len(cl) |->
            IF cl[k][1] = "private" THEN <<"private", StackLocals>> ELSE cl[k]]
    ELSE Append(cl, <<"private", StackLocals>>)

\* The clauses of a parallel pragma after the pass: the local stack variables
\* are taken out of firstprivate and put into private, which is created
\* when the pragma has none; every other entry stays.
SyncClauses(cl) ==
    LET stackvars == {StackLocals[k] : k \in 1..Len(StackLocals)}
        cleaned == [k \in 1..Len(cl) |->
                      IF cl[k][1] = "firstprivate"
                      THEN <<cl[k][1], SelectSeq(cl[k][2], LAMBDA v : v \notin stackvars)>>
                      ELSE cl[k]]
        added == [k \in 1..Len(cleaned) |->
                    IF cleaned[k][1] = "private"
                    THEN <<"private",
                           SelectSeq(cleaned[k][2], LAMBDA v : v \notin stackvars) \o StackLocals>>
                    ELSE cleaned[k]]
    IN IF "private" \in ClauseNames(cl) THEN added
       ELSE Append(cleaned, <<"private", StackLocals>>)

\* The data sharing of the parallel regions of the configured dialect.
SyncPragma(s) ==
    IF s.op = "pragma" /\ s.lhs = DirectiveKeyword /\ s.rhs = "parallel"
    THEN [s EXCEPT !.clauses = SyncClauses(@)]
    ELSE s

\* A provisioner that seeds the first block loop only.
RECURSIVE SeedLoopsFirstOnly(_)
SeedLoopsFirstOnly(body) ==
    IF body = <<>> THEN <<>>
    ELSE IF Head(body).op = "do"
         THEN <<Head(body)>> \o StackSeed \o [i \in 1..(Len(body) - 1) |-> SyncPragma(body[i + 1])]
         ELSE <<SyncPragma(Head(body))>> \o SeedLoopsFirstOnly(Tail(body))

\* The statements rest, which follow the head of a block loop, start with
\* the seed of the working base.
SeededAlready(rest) == rest # <<>> /\ Head(rest) = Assign(StackVarL, SeedL)

\* The seed at the head of every block loop that does not start with it.
RECURSIVE SeedLoops(_)
SeedLoops(body) ==
    IF body = <<>> THEN <<>>
    ELSE <<SyncPragma(Head(body))>>
           \o (IF Head(body).op = "do" /\ ~SeededAlready(Tail(body))
               THEN StackSeed ELSE <<>>)
           \o SeedLoops(Tail(body))

\* The assignment of the buffer size and the allocation of the buffer.
StackSetup ==
    <<Stmt("assign", StackSizeVar, "", DriverStackSize, NoCall),
      Stmt("allocate", StackStorage, "istsz,nb", ZeroSize, NoCall)>>

\* The body with the setup in the place of the first stack-insert pragma.
RECURSIVE InsertAtMarker(_)
InsertAtMarker(body) ==
    IF body = <<>> THEN <<>>
    ELSE IF Head(body) = StackInsertPragma THEN StackSetup \o Tail(body)
    ELSE <<Head(body)>> \o InsertAtMarker(Tail(body))

HasMarker(body) == \E i \in 1..Len(body) : body[i] = StackInsertPragma

\* A provisioner that overlooks the stack-insert pragma.
ProvisionRootAtHead(body) ==
    StackSetup \o SeedLoops(body)
      \o <<Stmt("deallocate", StackStorage, "", ZeroSize, NoCall)>>

\* The body allocates, or deallocates, the buffer itself.
HasAllocation(body) ==
    \E i \in 1..Len(body) : body[i].op = "allocate" /\ body[i].lhs = StackStorage
HasDeallocation(body) ==
    \E i \in 1..Len(body) : body[i].op = "deallocate" /\ body[i].lhs = StackStorage

\* A provisioner that sets up the buffer whatever the driver holds already.
ProvisionRootAnew(body) ==
    (IF HasMarker(body) THEN InsertAtMarker(SeedLoops(body))
     ELSE StackSetup \o SeedLoops(body))
      \o <<Stmt("deallocate", StackStorage, "", ZeroSize, NoCall)>>

\* create_pool_allocator: size and allocation at the stack-insert pragma or,
\* without one, ahead of the body; the seed in every block loop; the
\* deallocation at the end. What the driver holds already is used as it is.
ProvisionRoot(body) ==
    (IF HasAllocation(body) THEN SeedLoops(body)
     ELSE IF HasMarker(body) THEN InsertAtMarker(SeedLoops(body))
     ELSE StackSetup \o SeedLoops(body))
      \o (IF HasDeallocation(body) THEN <<>>
          ELSE <<Stmt("deallocate", StackStorage, "", ZeroSize, NoCall)>>)

(***************************************************************************)
(* The pass                                                                *)
(***************************************************************************)

\* The routines r calls, by call statement or inline call.
Callees(r) ==
    {prog[r].body[i].call.name :
        i \in {j \in 1..Len(prog[r].body) : prog[r].body[j].op \in {"call", "inline"}}}

Visited == {visited[i] : i \in 1..Len(visited)}

DerivedTypeWarning(r) ==
    [msg |-> "Derived-type vars in Subroutine not supported in pool allocator",
     routine |-> r]

\* A scheduler that takes the kernels in any order.
KernelReadyAnyOrder(r) ==
    /\ r \in Targets
    /\ r \notin Visited

\* A kernel is processed once, after the kernels it calls.
KernelReady(r) ==
    /\ r \in Targets
    /\ r \notin Visited
    /\ (Callees(r) \cap Targets) \subseteq Visited

\* The driver is processed once, after every kernel.
DriverReady ==
    /\ prog["driver"].present
    /\ "driver" \notin Visited
    /\ Targets \subseteq Visited

\* The kernel r with the stack dummy arguments, the local stack variables,
\* the overlays and the frame prologue added and its calls threaded.
InstrumentKernel(r) ==
    [arguments |-> ir[r].arguments \o StackFormals,
     variables |-> ir[r].variables \o StackLocals \o PtrVars(r),
     overlays |-> ir[r].overlays \o Overlays(r),
     body |-> FramePrologue(r) \o ThreadBody(ir[r].body, r)]

\* A detection that never finds a routine instrumented.
NeverInstrumented(r) == FALSE

\* The stack dummy argument is among the arguments of r already.
AlreadyInstrumented(r) ==
    \E i \in 1..Len(ir[r].arguments) : ir[r].arguments[i] = StackArgL

\* A routine that has the stack dummy argument is left as it is.
ApplyToKernel(r) ==
    IF AlreadyInstrumented(r) THEN ir[r] ELSE InstrumentKernel(r)

\* transform_subroutine for a routine of role kernel.
TransformKernel(r) ==
    /\ KernelReady(r)
    /\ log' = IF HasDerivedLocals(r) THEN Append(log, DerivedTypeWarning(r)) ELSE log
    /\ ir' = [ir EXCEPT ![r] = ApplyToKernel(r)]
    /\ trafo_data' = [trafo_data EXCEPT ![r] =
                        [published |-> TRUE, stack_size |-> KernelStackSize(r)]]
    /\ visited' = Append(visited, r)
    /\ UNCHANGED <<config, prog, runvars, othervars>>

\* The names of names that the declarations vs do not hold.
Undeclared(names, vs) ==
    SelectSeq(names, LAMBDA n : \A i \in 1..Len(vs) : vs[i] # n)

\* transform_subroutine for the routine of role driver.
TransformDriver ==
    /\ DriverReady
    /\ ir' = [ir EXCEPT !["driver"] =
                [arguments |-> @.arguments,
                 variables |-> @.variables
                                 \o Undeclared(<<StackSizeVar, StackStorage>> \o StackLocals,
                                               @.variables),
                 overlays |-> <<>>,
                 body |-> ProvisionRoot(ThreadBody(@.body, "driver"))]]
    /\ visited' = Append(visited, "driver")
    /\ UNCHANGED <<config, prog, trafo_data, log, runvars, othervars>>

\* How often routine r has been processed.
Runs(r) == Cardinality({i \in 1..Len(visited) : visited[i] = r})

\* transform_subroutine for a kernel in a further run of the pass over the
\* processed call tree.
ReapplyKernel(r) ==
    /\ r \in Targets
    /\ \A q \in Routines : prog[q].present => q \in Visited
    /\ Runs(r) < MaxRuns
    /\ ir' = [ir EXCEPT ![r] = ApplyToKernel(r)]
    /\ visited' = Append(visited, r)
    /\ UNCHANGED <<config, prog, trafo_data, log, runvars, othervars>>

(***************************************************************************)
(* The sources the pass is run on                                          *)
(***************************************************************************)

CallStyles == {"pos", "kw", "mixed"}

\* A call of callee from caller: all arguments positional, all by keyword,
\* or the first four positional and the rest by keyword; with or without an
\* actual argument for the optional dummy argument.
MkCall(callee, caller, style, opt) ==
    LET f == Formals(callee)
        a == Actuals(caller)
        n == IF opt THEN 6 ELSE 5
        npos == CASE style = "pos" -> n [] style = "kw" -> 0 [] OTHER -> 4
    IN Call(callee, SubSeq(a, 1, npos),
            [j \in 1..(n - npos) |-> <<f[npos + j], a[npos + j]>>])

\* One statement per local array, in declaration order or in reverse.
Uses(n, rev) == [k \in 1..n |-> Use(TmpName[IF rev THEN n + 1 - k ELSE k])]

LocalNames(n) == [k \in 1..n |-> TmpName[k]]

Routine(present, locals, body) ==
    [present |-> present, locals |-> locals, body |-> body]

Absent == Routine(FALSE, <<>>, <<>>)

KernelBody(locals, rev, inline, calls) ==
    (IF inline THEN <<InlineStmt(Call("inline_kernel", <<"jl">>, <<>>))>> ELSE <<>>)
      \o Uses(Len(locals), rev)
      \o calls

\* The call trees: the driver calls kernel; the driver calls kernel and
\* kernel2 one after the other; the driver calls kernel, which calls
\* kernel2; both.
Shapes == {"single", "sequence", "nested", "both"}

Program(klocals, k2locals, rev, shape, style, opt, inline) ==
    LET dcalls == <<CallStmt(MkCall("kernel", "driver", style, opt))>>
                    \o (IF shape \in {"sequence", "both"}
                        THEN <<CallStmt(MkCall("kernel2", "driver", style, opt))>>
                        ELSE <<>>)
        kcalls == IF shape \in {"nested", "both"}
                  THEN <<CallStmt(MkCall("kernel2", "kernel", style, opt))>>
                  ELSE <<>>
    IN [r \in Routines |->
          CASE r = "driver" ->
                 Routine(TRUE, <<>>,
                         <<Stmt("do", "b", "1,nb", ZeroSize, NoCall)>> \o dcalls
                           \o <<Stmt("enddo", "", "", ZeroSize, NoCall)>>)
            [] r = "kernel" -> Routine(TRUE, klocals, KernelBody(klocals, rev, inline, kcalls))
            [] r = "kernel2" ->
                 IF shape = "single" THEN Absent
                 ELSE Routine(TRUE, k2locals, KernelBody(k2locals, rev, FALSE, <<>>))
            [] OTHER -> IF inline THEN Routine(TRUE, <<>>, <<>>) ELSE Absent]

Directives == {"none", "openmp", "openacc"}

\* The options of the transformation without a directive dialect, and with
\* every dialect.
Configs ==
    [check_bounds : BOOLEAN, cray_ptr_loc_rhs : BOOLEAN, horizontal : BOOLEAN,
     directive : {"none"}]
DirectiveConfigs ==
    [check_bounds : BOOLEAN, cray_ptr_loc_rhs : BOOLEAN, horizontal : BOOLEAN,
     directive : Directives]

LocalLists == UNION {[1..n -> LocalKinds] : n \in 0..MaxLocals}

\* The kernels of the tests: test_pool_allocator_temporaries_kernel_sequence
\* and test_pool_allocator_more_call_checks.
TestLocals == {<<"h1", "h2", "i2h", "lv">>, <<"h1", "h1", "dt">>}
Kernel2Locals == <<"h2x2", "h2">>

\* The bound of the buffer as the driver of test_pool_allocator_temporaries
\* writes it in its own source.
DeclaredSeedU ==
    IF config.cray_ptr_loc_rhs THEN "ylstack_l + istsz"
    ELSE "ylstack_l + c_sizeof(real(1, kind=jprb))*istsz"

\* The size that driver gives its buffer: nlon + nlon*nz elements.
UserStackSize ==
    SizeExpr(<<SetToBag({Mono(NoSize, SetToBag({Var("nlon", NoScope)})),
                         Mono(NoSize, SetToBag({Var("nlon", NoScope),
                                                Var("nz", NoScope)}))})>>,
             NoSize)

\* The stack variables a driver that allocates the buffer itself declares
\* (bounded: the upper bound too).
DeclaredStack(body, bounded) ==
    IF \E i \in 1..Len(body) : body[i].op = "allocate" /\ body[i].lhs = StackStorage
    THEN <<StackSizeVar, StackStorage, StackVarL>>
           \o (IF bounded THEN <<StackVarU>> ELSE <<>>)
    ELSE <<>>

\* No library is being built.
BldOff == [phase |-> "off"]

\* No run with parallel block loops has begun.
ParIdle ==
    [phase |-> "idle", pc |-> 0, loop |-> 0, shared |-> <<>>, priv |-> <<>>,
     tpc |-> <<>>, regions |-> {}, calls |-> {}]

Start(c, p) ==
    /\ config = c
    /\ prog = p
    /\ ir = [r \in Routines |->
               [arguments |-> Formals(r),
                variables |-> LocalNames(Len(p[r].locals))
                                \o DeclaredStack(p[r].body, c.check_bounds),
                overlays |-> <<>>,
                body |-> p[r].body]]
    /\ trafo_data = [r \in Routines |-> [published |-> FALSE, stack_size |-> ZeroSize]]
    /\ visited = <<>>
    /\ log = <<>>
    /\ frames = <<>>
    /\ events = <<>>
    /\ status = "idle"
    /\ par = ParIdle
    /\ bld = BldOff

\* Every list of local declarations up to MaxLocals, in plain call trees;
\* the single kernel uses its locals in either order.
InitLocals ==
    \E c \in Configs, l \in LocalLists, rev \in BOOLEAN,
       shape \in {"single", "sequence", "nested"} :
        /\ rev => shape = "single"
        /\ Start(c, Program(l, Kernel2Locals, rev, shape, "pos", FALSE, FALSE))

\* The kernels of the tests under every call tree and call style.
InitCalls ==
    \E c \in Configs, l \in TestLocals, shape \in Shapes, style \in CallStyles,
       opt \in BOOLEAN, inline \in BOOLEAN :
        Start(c, Program(l, Kernel2Locals, FALSE, shape, style, opt, inline))

\* The pragmas around the k-th block loop of a driver in dialect dir: the
\* two loops of test_pool_allocator_temporaries_kernel_sequence (k = 1, 2)
\* and the loop of test_pool_allocator_temporaries_kernel_nested (k = 3);
\* fp puts the local stack base into firstprivate.
LoopPragmas(k, dir, fp) ==
    LET first == <<"a">> \o (IF fp THEN <<StackVarL>> ELSE <<>>)
    IN CASE dir = "openmp" /\ k = 1 ->
              <<Pragma("omp", "parallel",
                       <<<<"default", <<"shared">>>>, <<"private", <<"b">>>>,
                         <<"firstprivate", first>>>>),
                Pragma("omp", "do", <<>>)>>
         [] dir = "openmp" /\ k = 2 ->
              <<Pragma("omp", "parallel", <<<<"firstprivate", first>>>>)>>
         [] dir = "openmp" /\ k = 3 ->
              <<Pragma("omp", "parallel", <<<<"private", <<"b">>>>>>)>>
         [] dir = "openacc" /\ k = 1 ->
              <<Pragma("acc", "parallel",
                       <<<<"private", <<"b">>>>, <<"firstprivate", first>>>>)>>
         [] dir = "openacc" /\ k = 2 ->
              <<Pragma("acc", "parallel", <<<<"firstprivate", first>>>>)>>
         [] dir = "openacc" /\ k = 3 -> <<Pragma("acc", "parallel", <<>>)>>
         [] OTHER -> <<>>

EndPragmas(k, dir) ==
    CASE dir = "openmp" /\ k = 1 -> <<Pragma("omp", "end", <<>>), Pragma("omp", "end", <<>>)>>
      [] dir = "openmp" -> <<Pragma("omp", "end", <<>>)>>
      [] dir = "openacc" -> <<Pragma("acc", "end", <<>>)>>
      [] OTHER -> <<>>

\* A block loop around one call, with the pragmas of its dialect.
BlockLoop(k, callee, dir, fp) ==
    LoopPragmas(k, dir, fp)
      \o <<Stmt("do", "b", "1,nb", ZeroSize, NoCall),
           CallStmt(MkCall(callee, "driver", "pos", FALSE)),
           Stmt("enddo", "", "", ZeroSize, NoCall)>>
      \o EndPragmas(k, dir)

\* The drivers of the two tests: an assignment, the stack-insert pragma or
\* not, then one block loop around the call of kernel (which calls kernel2),
\* or one around the call of kernel and one around the call of kernel2.
DriverBody(marker, twoloops, dir, fp) ==
    <<Assign("a", "1")>>
      \o (IF marker THEN <<StackInsertPragma>> ELSE <<>>)
      \o (IF twoloops
          THEN BlockLoop(1, "kernel", dir, fp) \o BlockLoop(2, "kernel2", dir, fp)
          ELSE BlockLoop(3, "kernel", dir, fp))

DriverProgram(marker, twoloops, dir, fp) ==
    [Program(<<"h1", "h2", "i2h", "lv">>, Kernel2Locals, FALSE,
             IF twoloops THEN "sequence" ELSE "nested", "pos", FALSE, FALSE)
       EXCEPT !["driver"] = Routine(TRUE, <<>>, DriverBody(marker, twoloops, dir, fp))]

\* The drivers of the tests under every dialect, with and without the
\* stack-insert pragma.
InitDrivers ==
    \E c \in DirectiveConfigs, marker \in BOOLEAN, twoloops \in BOOLEAN, fp \in BOOLEAN :
        Start(c, DriverProgram(marker, twoloops, c.directive, fp))

\* A kernel with one local array of every kind of exclusion next to an
\* eligible one.
ExclusionLocals == <<"h1", "lit", "par", "ptr", "alloc", "dt">>

InitExclusions ==
    \E c \in Configs, rev \in BOOLEAN :
        Start(c, Program(ExclusionLocals, Kernel2Locals, rev, "single", "pos", FALSE, FALSE))

Init == InitLocals \/ InitCalls \/ InitDrivers \/ InitExclusions

\* The driver of test_pool_allocator_temporaries: with its own buffer, seed
\* and deallocation (declared) or with none of them.
DeclaredDriverBody(declared) ==
    (IF declared
     THEN <<Stmt("assign", StackSizeVar, "", UserStackSize, NoCall),
            Stmt("allocate", StackStorage, "istsz,nb", ZeroSize, NoCall)>>
     ELSE <<>>)
      \o <<Stmt("do", "b", "1,nb", ZeroSize, NoCall)>>
      \o (IF declared
          THEN <<Assign(StackVarL, SeedL), Assign(StackVarU, DeclaredSeedU)>>
          ELSE <<>>)
      \o <<CallStmt(MkCall("kernel", "driver", "pos", FALSE)),
           Stmt("enddo", "", "", ZeroSize, NoCall)>>
      \o (IF declared
          THEN <<Stmt("deallocate", StackStorage, "", ZeroSize, NoCall)>>
          ELSE <<>>)

DeclaredProgram(l, shape, declared) ==
    [Program(l, Kernel2Locals, FALSE, shape, "pos", FALSE, FALSE)
       EXCEPT !["driver"] = Routine(TRUE, <<>>, DeclaredDriverBody(declared))]

InitDeclared ==
    \E c \in Configs, l \in LocalLists, shape \in {"single", "nested"},
       declared \in BOOLEAN :
        Start(c, DeclaredProgram(l, shape, declared))

Next == (\E r \in Kernels : TransformKernel(r)) \/ TransformDriver

Spec == Init /\ [][Next]_vars

\* The pass over drivers that bring their own buffer and drivers that do not.
DeclaredSpec == InitDeclared /\ [][Next]_vars

\* The pass run over the call trees of the tests and applied again to the
\* kernels afterwards.
NextRerun == Next \/ \E r \in Kernels : ReapplyKernel(r)

RerunSpec == InitDrivers /\ [][NextRerun]_vars

(***************************************************************************)
(* A run of the generated code                                             *)
(***************************************************************************)

\* Largest value of nlon and nz, and the number of blocks nb, of a run.
MaxExtent == 2
NumBlocks == 2

\* The address of the first element of the buffer zstack.
BufferAddress == 1000

\* The integer variables of the routines.
RunNames ==
    {"nlon", "nz", "nb", "klon", "klev", "columns", "levels", "start", "end",
     "jl", "a", "b", "opt", "opt_arg", "field1", "field2", "istsz", "zstack",
     StackArgL, StackArgU, StackVarL, StackVarU}
      \cup {PtrName[i] : i \in 1..Len(PtrName)}

ZeroEnv == [n \in RunNames |-> 0]

Frame(r, pc, env) == [routine |-> r, pc |-> pc, env |-> env]

\* c_sizeof of the element types, in bytes, and its clamped form.
EsBytes(es) ==
    IF es.type = "none" THEN 1
    ELSE LET b == CASE es.type = "real" -> 8
                    [] es.type = "int" -> 4
                    [] es.type = "logical" -> 4
                    [] OTHER -> 8
         IN IF es.clamp /\ b < 8 THEN 8 ELSE b

RECURSIVE Pow(_, _)
Pow(x, n) == IF n = 0 THEN 1 ELSE x * Pow(x, n - 1)

\* The value of a product of variables, of a sum and of a size expression
\* (the maximum of the alternatives, divided as integers are) under env.
RECURSIVE EvalDims(_, _, _)
EvalDims(V, dimbag, env) ==
    IF V = {} THEN 1
    ELSE LET v == CHOOSE x \in V : TRUE
         IN Pow(env[v.name], dimbag[v]) * EvalDims(V \ {v}, dimbag, env)

RECURSIVE EvalSum(_, _, _)
EvalSum(M, sum, env) ==
    IF M = {} THEN 0
    ELSE LET m == CHOOSE x \in M : TRUE
         IN sum[m] * EsBytes(m.es) * EvalDims(DOMAIN m.dims, m.dims, env)
              + EvalSum(M \ {m}, sum, env)

RECURSIVE MaxOf(_)
MaxOf(q) ==
    IF Len(q) = 1 THEN q[1]
    ELSE LET t == MaxOf(Tail(q)) IN IF q[1] > t THEN q[1] ELSE t

EvalSize(e, env) ==
    MaxOf([i \in 1..Len(e.alts) |-> EvalSum(DOMAIN e.alts[i], e.alts[i], env)])
      \div EsBytes(e.div)

\* The address of the column of the buffer of the current block.
ColumnAddress(env) ==
    env["zstack"] + (env["b"] - 1) * env["istsz"] * EsBytes(ElemSize("real", FALSE))

\* The value of an actual argument or of a right-hand side.
ValueOf(x, env) ==
    CASE x \in RunNames -> env[x]
      [] x = "1" -> 1
      [] x = "zstack(:,b)" -> ColumnAddress(env)
      [] x = "loc(zstack(1, b))" -> ColumnAddress(env)
      [] x = "loc(zstack(ylstack_l))" ->
           env["zstack"] + (env[StackVarL] - 1) * EsBytes(ElemSize("real", FALSE))
      [] x = "ylstack_l + istsz" -> env[StackVarL] + env["istsz"]
      [] x = "ylstack_l + istsz * c_sizeof(real(1, kind=jprb))" ->
           env[StackVarL] + env["istsz"] * EsBytes(ElemSize("real", FALSE))
      [] OTHER -> 0

\* Dummy argument names compare without regard to case.
DummyName(n) ==
    CASE n = KwStackL -> StackArgL
      [] n = KwStackU -> StackArgU
      [] n = KwStorage -> StackStorage
      [] OTHER -> n

\* The dummy/actual pairs of a call of the rewritten code.
Bindings(c) ==
    LET f == ir[c.name].arguments
    IN {<<f[i], c.args[i]>> : i \in 1..Len(c.args)}
         \cup {<<DummyName(c.kwargs[j][1]), c.kwargs[j][2]>> : j \in 1..Len(c.kwargs)}

\* The variables of the callee on entry: every dummy argument that is bound
\* has the value of its actual argument.
EntryEnv(c, env) ==
    [n \in RunNames |->
        IF \E p \in Bindings(c) : p[1] = n
        THEN ValueOf((CHOOSE p \in Bindings(c) : p[1] = n)[2], env)
        ELSE 0]

\* The variables of the caller on return: arguments are passed by reference,
\* so an actual argument that is a variable has the value its dummy argument
\* has at the end of the callee.
ReturnEnv(c, env, calleeEnv) ==
    [n \in RunNames |->
        IF \E p \in Bindings(c) : p[2] = n
        THEN calleeEnv[(CHOOSE p \in Bindings(c) : p[2] = n)[1]]
        ELSE env[n]]

Top == frames[Len(frames)]
Body(f) == ir[f.routine].body
AtStmt(op) ==
    /\ status = "running"
    /\ frames # <<>>
    /\ Top.pc <= Len(Body(Top))
    /\ Body(Top)[Top.pc].op \in op
Cur == Body(Top)[Top.pc]

Goto(pc, env) == [frames EXCEPT ![Len(frames)] = Frame(Top.routine, pc, env)]

Event(kind, caller, callee, callerEnv, calleeEnv) ==
    [kind |-> kind, caller |-> caller, callee |-> callee,
     block |-> frames[1].env["b"], depth |-> Len(frames),
     caller_env |-> callerEnv, callee_env |-> calleeEnv]

PassDone == \A q \in Routines : prog[q].present => q \in Visited

\* The driver is entered with some nlon and nz and with nb blocks.
RunStart ==
    /\ status = "idle"
    /\ PassDone
    /\ \E nlon \in 1..MaxExtent, nz \in 1..MaxExtent :
         frames' = <<Frame("driver", 1,
                           [ZeroEnv EXCEPT !["nlon"] = nlon, !["nz"] = nz,
                                           !["nb"] = NumBlocks])>>
    /\ status' = "running"
    /\ UNCHANGED <<othervars, passvars, events>>

\* lhs = rhs, lhs = rhs + size, lhs = size.
ExecAssign ==
    /\ AtStmt({"assign"})
    /\ frames' = Goto(Top.pc + 1,
                      [Top.env EXCEPT ![Cur.lhs] =
                          ValueOf(Cur.rhs, Top.env) + EvalSize(Cur.expr, Top.env)])
    /\ UNCHANGED <<othervars, passvars, events, status>>

\* IF (ylstack_l > ylstack_u) STOP.
ExecGuard ==
    /\ AtStmt({"guard"})
    /\ IF Top.env[Cur.lhs] > Top.env[Cur.rhs]
       THEN status' = "stopped" /\ UNCHANGED frames
       ELSE frames' = Goto(Top.pc + 1, Top.env) /\ UNCHANGED status
    /\ UNCHANGED <<othervars, passvars, events>>

\* ALLOCATE(zstack(istsz, nb)).
ExecAllocate ==
    /\ AtStmt({"allocate"})
    /\ frames' = Goto(Top.pc + 1, [Top.env EXCEPT ![Cur.lhs] = BufferAddress])
    /\ UNCHANGED <<othervars, passvars, events, status>>

\* Statements that leave the integer variables alone.
ExecOther ==
    /\ AtStmt({"use", "deallocate", "pragma"})
    /\ frames' = Goto(Top.pc + 1, Top.env)
    /\ UNCHANGED <<othervars, passvars, events, status>>

\* DO b = 1, nb.
ExecDo ==
    /\ AtStmt({"do"})
    /\ frames' = Goto(Top.pc + 1, [Top.env EXCEPT ![Cur.lhs] = 1])
    /\ UNCHANGED <<othervars, passvars, events, status>>

\* END DO: the next block, or on.
ExecEndDo ==
    /\ AtStmt({"enddo"})
    /\ LET dos == {j \in 1..Top.pc : Body(Top)[j].op = "do"}
           do == CHOOSE j \in dos : \A k \in dos : k <= j
           v == Body(Top)[do].lhs
       IN frames' = IF Top.env[v] < Top.env["nb"]
                    THEN Goto(do + 1, [Top.env EXCEPT ![v] = @ + 1])
                    ELSE Goto(Top.pc + 1, Top.env)
    /\ UNCHANGED <<othervars, passvars, events, status>>

\* A call statement or an inline call: the callee is entered.
ExecCall ==
    /\ AtStmt({"call", "inline"})
    /\ LET env == EntryEnv(Cur.call, Top.env)
       IN /\ frames' = Append(frames, Frame(Cur.call.name, 1, env))
          /\ events' = Append(events, Event("call", Top.routine, Cur.call.name, Top.env, env))
    /\ UNCHANGED <<othervars, passvars, status>>

\* The end of a kernel: back to the statement after the call.
ExecReturn ==
    /\ status = "running"
    /\ Len(frames) > 1
    /\ Top.pc > Len(Body(Top))
    /\ LET caller == frames[Len(frames) - 1]
           c == Body(caller)[caller.pc].call
           env == ReturnEnv(c, caller.env, Top.env)
       IN /\ frames' = [SubSeq(frames, 1, Len(frames) - 1)
                          EXCEPT ![Len(frames) - 1] = Frame(caller.routine, caller.pc + 1, env)]
          /\ events' = Append(events, Event("return", caller.routine, Top.routine, env, Top.env))
    /\ UNCHANGED <<othervars, passvars, status>>

\* The end of the driver.
RunEnd ==
    /\ status = "running"
    /\ Len(frames) = 1
    /\ Top.pc > Len(Body(Top))
    /\ status' = "done"
    /\ UNCHANGED <<othervars, passvars, frames, events>>

RunNext ==
    \/ RunStart
    \/ ExecAssign
    \/ ExecGuard
    \/ ExecAllocate
    \/ ExecOther
    \/ ExecDo
    \/ ExecEndDo
    \/ ExecCall
    \/ ExecReturn
    \/ RunEnd

\* The kernels that are run: those of the tests and one with a real array
\* (klon) and an integer array (klon).
RunLocals == TestLocals \cup {<<"h1", "i1h">>}

\* The call trees of the tests, with and without a kernel that has an array
\* of derived type, called with positional and keyword arguments.
InitRun ==
    \E c \in Configs, l \in RunLocals, shape \in Shapes :
        Start(c, Program(l, Kernel2Locals, FALSE, shape, "mixed", FALSE, FALSE))

\* The pass, then a run of the code it has generated.
NextRun == Next \/ RunNext

RunSpec == InitRun /\ [][NextRun]_vars

(***************************************************************************)
(* A run of the generated code with parallel block loops                   *)
(***************************************************************************)

Range(f) == {f[i] : i \in DOMAIN f}

\* A pragma that opens a parallel region (OpenMP) or a parallel loop (OpenACC).
IsParallelPragma(s) == s.op = "pragma" /\ s.lhs \in {"omp", "acc"} /\ s.rhs = "parallel"

\* The names in the clauses called name of pragma s.
ClauseVars(s, name) ==
    UNION {Range(s.clauses[k][2]) : k \in {j \in 1..Len(s.clauses) : s.clauses[j][1] = name}}

DriverStmt(i) == ir["driver"].body[i]

\* The parallel pragmas right in front of the loop that starts at d.
EnclosingParallel(d) ==
    {j \in 1..(d - 1) :
        /\ IsParallelPragma(DriverStmt(j))
        /\ \A k \in j..(d - 1) : DriverStmt(k).op = "pragma"}

\* The variables of which every thread of the loop at d has a copy of its
\* own: the loop variable and what the private and firstprivate clauses name.
\* Every other variable of the driver is shared by the threads.
PrivateNames(d) ==
    {"b"} \cup UNION {ClauseVars(DriverStmt(j), "private")
                        \cup ClauseVars(DriverStmt(j), "firstprivate") :
                      j \in EnclosingParallel(d)}

FirstPrivateNames(d) ==
    UNION {ClauseVars(DriverStmt(j), "firstprivate") : j \in EnclosingParallel(d)}

\* The variables as thread t sees them.
ThreadEnv(t) ==
    [n \in RunNames |->
        IF n \in PrivateNames(par.loop) THEN par.priv[t][n] ELSE par.shared[n]]

\* The shared variables after thread t has left the variables as env.
SharedAfter(env) ==
    [n \in RunNames |->
        IF n \in PrivateNames(par.loop) THEN par.shared[n] ELSE env[n]]

\* The address of the buffer element that the base c stands for.
Addr(c, env) ==
    IF config.cray_ptr_loc_rhs
    THEN env["zstack"] + (c - 1) * EsBytes(ElemSize("real", FALSE))
    ELSE c

\* The body of routine r from statement pc on, run with the variables env:
\* the variables at the end, the regions [lo, hi) of the buffer that the
\* advances of the working base have carved, added to acc, and whether a
\* guard has stopped the program.
RECURSIVE Exec(_, _, _, _)
Exec(r, pc, env, acc) ==
    IF pc > Len(ir[r].body) THEN [env |-> env, regions |-> acc, stopped |-> FALSE]
    ELSE LET s == ir[r].body[pc]
         IN CASE s.op = "assign" ->
                   LET v == ValueOf(s.rhs, env) + EvalSize(s.expr, env)
                       carved == IF s.lhs = StackVarL /\ s.rhs = StackVarL
                                 THEN {[lo |-> Addr(env[StackVarL], env), hi |-> Addr(v, env)]}
                                 ELSE {}
                   IN Exec(r, pc + 1, [env EXCEPT ![s.lhs] = v], acc \cup carved)
              [] s.op = "guard" ->
                   IF env[s.lhs] > env[s.rhs]
                   THEN [env |-> env, regions |-> acc, stopped |-> TRUE]
                   ELSE Exec(r, pc + 1, env, acc)
              [] s.op \in {"call", "inline"} ->
                   LET res == Exec(s.call.name, 1, EntryEnv(s.call, env), acc)
                   IN IF res.stopped THEN res
                      ELSE Exec(r, pc + 1, ReturnEnv(s.call, env, res.env), res.regions)
              [] OTHER -> Exec(r, pc + 1, env, acc)

Threads == 1..NumBlocks

\* The driver is entered by one thread.
ParStart ==
    /\ par.phase = "idle"
    /\ status = "idle"
    /\ PassDone
    /\ \E nlon \in 1..MaxExtent, nz \in 1..MaxExtent :
         par' = [par EXCEPT !.phase = "serial", !.pc = 1,
                            !.shared = [ZeroEnv EXCEPT !["nlon"] = nlon, !["nz"] = nz,
                                                       !["nb"] = NumBlocks]]
    /\ UNCHANGED <<passvars, runvars, bld>>

\* A statement of the driver outside of the block loops.
ParSerial ==
    /\ par.phase = "serial"
    /\ par.pc <= Len(ir["driver"].body)
    /\ LET s == DriverStmt(par.pc)
           env == par.shared
       IN /\ s.op \notin {"do", "enddo", "call", "inline"}
          /\ par' = [par EXCEPT
                        !.pc = @ + 1,
                        !.shared =
                           CASE s.op = "assign" ->
                                  [env EXCEPT ![s.lhs] =
                                      ValueOf(s.rhs, env) + EvalSize(s.expr, env)]
                             [] s.op = "allocate" -> [env EXCEPT ![s.lhs] = BufferAddress]
                             [] OTHER -> env]
    /\ UNCHANGED <<passvars, runvars, bld>>

\* The head of a block loop: one thread per block; a private variable has no
\* value yet, a firstprivate variable has the value it has outside.
ParFork ==
    /\ par.phase = "serial"
    /\ par.pc <= Len(ir["driver"].body)
    /\ DriverStmt(par.pc).op = "do"
    /\ par' = [par EXCEPT
                  !.phase = "parallel",
                  !.loop = par.pc,
                  !.priv = [t \in Threads |->
                              [n \in RunNames |->
                                 IF n = "b" THEN t
                                 ELSE IF n \in FirstPrivateNames(par.pc) THEN par.shared[n]
                                 ELSE 0]],
                  !.tpc = [t \in Threads |-> par.pc + 1]]
    /\ UNCHANGED <<passvars, runvars, bld>>

\* Thread t executes an assignment of the loop body.
ParAssign(t) ==
    /\ par.phase = "parallel"
    /\ DriverStmt(par.tpc[t]).op = "assign"
    /\ LET s == DriverStmt(par.tpc[t])
           env == ThreadEnv(t)
           new == [env EXCEPT ![s.lhs] = ValueOf(s.rhs, env) + EvalSize(s.expr, env)]
       IN par' = [par EXCEPT !.tpc[t] = @ + 1, !.priv[t] = new,
                             !.shared = SharedAfter(new)]
    /\ UNCHANGED <<passvars, runvars, bld>>

\* Thread t executes a call of the loop body: the kernel runs on variables
\* of its own, apart from its dummy arguments, which are the variables of
\* the driver that the call names.
ParCall(t) ==
    /\ par.phase = "parallel"
    /\ DriverStmt(par.tpc[t]).op = "call"
    /\ LET c == DriverStmt(par.tpc[t]).call
           env == ThreadEnv(t)
           cenv == EntryEnv(c, env)
           res == Exec(c.name, 1, cenv, {})
           base == Addr(cenv[StackArgL], cenv)
           bound == base + env["istsz"] * EsBytes(ElemSize("real", FALSE))
           new == ReturnEnv(c, env, res.env)
       IN IF res.stopped
          THEN par' = [par EXCEPT !.phase = "stopped"]
          ELSE par' = [par EXCEPT
                          !.tpc[t] = @ + 1, !.priv[t] = new,
                          !.shared = SharedAfter(new),
                          !.calls = @ \cup {[loop |-> par.loop, block |-> env["b"],
                                             callee |-> c.name, base |-> base]},
                          !.regions = @ \cup
                             {[loop |-> par.loop, block |-> env["b"], lo |-> x.lo,
                               hi |-> x.hi, bound |-> bound] : x \in res.regions}]
    /\ UNCHANGED <<passvars, runvars, bld>>

\* The end of the loop: the threads join.
ParJoin ==
    /\ par.phase = "parallel"
    /\ \A t \in Threads : DriverStmt(par.tpc[t]).op = "enddo"
    /\ par' = [par EXCEPT !.phase = "serial", !.pc = par.tpc[1] + 1]
    /\ UNCHANGED <<passvars, runvars, bld>>

ParEnd ==
    /\ par.phase = "serial"
    /\ par.pc > Len(ir["driver"].body)
    /\ par' = [par EXCEPT !.phase = "done"]
    /\ UNCHANGED <<passvars, runvars, bld>>

ParNext ==
    \/ ParStart
    \/ ParSerial
    \/ ParFork
    \/ \E t \in Threads : ParAssign(t)
    \/ \E t \in Threads : ParCall(t)
    \/ ParJoin
    \/ ParEnd

\* The kernels that are run under a driver with parallel block loops.
ParLocals == {<<"h1", "h2", "i2h", "lv">>, <<"h1", "i1h">>}

ParProgram(l, twoloops, dir, fp) ==
    [Program(l, Kernel2Locals, FALSE, IF twoloops THEN "sequence" ELSE "nested",
             "pos", FALSE, FALSE)
       EXCEPT !["driver"] = Routine(TRUE, <<>>, DriverBody(FALSE, twoloops, dir, fp))]

\* The drivers of the tests with their block loops under the pragmas of
\* either dialect.
InitPar ==
    \E c \in DirectiveConfigs, l \in ParLocals, twoloops \in BOOLEAN, fp \in BOOLEAN :
        /\ c.directive # "none"
        /\ Start(c, ParProgram(l, twoloops, c.directive, fp))

NextPar == Next \/ ParNext

ParSpec == InitPar /\ [][NextPar]_vars

(***************************************************************************)
(* Building a library: Lib.build (src/loki/jit_build/lib.py) and Obj.build *)
(* (src/loki/build/obj.py)                                                 *)
(***************************************************************************)

\* Largest modification time of an object file or a library that exists
\* before the first build; the sources of a and of the others are of the
\* times SourceTime and 1.
MaxTime == 3
SourceTime == 2

\* How often Lib.build is invoked, and Obj.build from outside Lib.build.
MaxBuilds == 2
MaxCalls == 1

ObjNames == {"a", "b", "c"}

\* The objects that are edited or constructed again between two builds.
Revisited == {"a"}

\* q_task of an object without a task, source_path of one without a source
\* file, the modification time of a file that does not exist.
NoTask == 0
NoPath == "None"
NoFile == 0

\* Obj.MODEMAP: the compile mode of a source suffix.
MODEMAP ==
    [s \in {".f90", ".f", ".c", ".cc", ".cpp", ".CC", ".cxx"} |->
       CASE s = ".f90" -> "f90"
         [] s = ".f" -> "f"
         [] s \in {".c", ".cc"} -> "c"
         [] OTHER -> "cpp"]

\* str.lower on the suffixes of the sources built here.
SuffixLower(suffix) ==
    CASE suffix = ".F90" -> ".f90"
      [] suffix = ".CC" -> ".cc"
      [] OTHER -> suffix

\* (build_dir/name).with_suffix('.o') and Path(o).resolve().
ObjectFile(o) == <<"build_dir", o, ".o">>
Resolve(path) == <<"resolved", path>>

\* The modification time of a file written at this point: later than every
\* file of the start, and later with every invocation.
Now == MaxTime + 1 + bld.builds + bld.calls

\* The tasks of the work queue that have not finished.
Pending == {k \in 1..Len(bld.tasks) : ~bld.tasks[k].done}

\* wait_and_check returns: there is no task, or the task has finished.
WaitReturns(task) == IF task = NoTask THEN TRUE ELSE bld.tasks[task].done

\* A test that takes an object file as old as its source for up-to-date.
ObjUpToDateOrEqual(force, t_time, s_time) ==
    ~force /\ t_time # NoFile /\ s_time # NoFile /\ t_time >= s_time

\* Obj.build: the object file is newer than the source and nothing forces.
ObjUpToDate(force, t_time, s_time) ==
    ~force /\ t_time # NoFile /\ s_time # NoFile /\ t_time > s_time

\* Obj.build of object o with or without a work queue wq: the exception
\* raised, the commands dispatched, and q_task, the tasks and the object
\* file afterwards.
ObjBuild(o, force, wq) ==
    LET ob == bld.obj[o]
        same == [raised |-> "none", cmds |-> <<>>, q_task |-> ob.q_task,
                 tasks |-> bld.tasks, o_time |-> ob.o_time, ran |-> FALSE]
    IN IF ob.source_path = NoPath THEN [same EXCEPT !.raised = "RuntimeError"]
       ELSE IF SuffixLower(ob.source_path) \notin DOMAIN MODEMAP
       THEN [same EXCEPT !.raised = "KeyError"]
       ELSE IF ObjUpToDate(force, ob.o_time, ob.s_time) THEN same
       ELSE LET cmd == [source |-> o, target |-> ObjectFile(o),
                        mode |-> MODEMAP[SuffixLower(ob.source_path)]]
            IN IF wq
               THEN [same EXCEPT !.cmds = <<cmd>>,
                                 !.q_task = Len(bld.tasks) + 1,
                                 !.tasks = Append(bld.tasks, [obj |-> o, done |-> FALSE])]
               ELSE [same EXCEPT !.cmds = <<cmd>>, !.o_time = Now, !.ran = TRUE]

\* Obj.build has not been invoked.
NoInvocation == [obj |-> "None"]

\* What is known of an invocation of Obj.build: its inputs and its result.
Invocation(o, force, wq, res) ==
    [obj |-> o, force |-> force, wq |-> wq,
     source_path |-> bld.obj[o].source_path,
     s_time |-> bld.obj[o].s_time, o_time |-> bld.obj[o].o_time,
     q_before |-> bld.obj[o].q_task, n_tasks |-> Len(bld.tasks),
     raised |-> res.raised, cmds |-> res.cmds, q_after |-> res.q_task,
     tasks |-> res.tasks, ran |-> res.ran]

\* bld after the invocation of Obj.build on o with result res.
AfterObjBuild(b, o, force, wq, res) ==
    [b EXCEPT !.obj[o].q_task = res.q_task,
              !.obj[o].o_time = res.o_time,
              !.tasks = res.tasks,
              !.last = Invocation(o, force, wq, res)]

\* Obj.build called on its own, with a work queue of the caller or without,
\* on objects that no library has been built from.
ObjBuildCall(o, force, wq) ==
    /\ bld.phase = "idle"
    /\ bld.builds = 0
    /\ bld.calls < MaxCalls
    /\ Pending = {}
    /\ LET b == [bld EXCEPT !.calls = @ + 1]
           res == ObjBuild(o, force, wq)
       IN bld' = AfterObjBuild(b, o, force, wq, res)
    /\ UNCHANGED <<passvars, runvars, par>>

\* A worker of the queue finishes task k: the object file is written.
TaskFinish(k) ==
    /\ k \in Pending
    /\ bld' = [bld EXCEPT !.tasks[k].done = TRUE,
                          !.obj[bld.tasks[k].obj].o_time = Now]
    /\ UNCHANGED <<passvars, runvars, par>>

\* Obj.__new__ and Obj.__init__ for a name that was constructed before: the
\* cached instance, its q_task None again, its source_path as it was.
Construct(o) ==
    /\ o \in Revisited
    /\ bld.phase = "idle"
    /\ bld.builds \in 1..(MaxBuilds - 1)
    /\ bld.obj[o].q_task # NoTask
    /\ bld' = [bld EXCEPT !.obj[o].q_task = NoTask]
    /\ UNCHANGED <<passvars, runvars, par>>

\* The source file of o is edited after a build.
Touch(o) ==
    /\ o \in Revisited
    /\ bld.phase = "idle"
    /\ bld.builds \in 1..(MaxBuilds - 1)
    /\ bld.obj[o].source_path # NoPath
    /\ bld.obj[o].s_time < Now
    /\ bld' = [bld EXCEPT !.obj[o].s_time = Now]
    /\ UNCHANGED <<passvars, runvars, par>>

\* max(...) of a set of modification times.
NewestOf(S) == CHOOSE x \in S : \A y \in S : y <= x

\* o_time of Lib.build: None with an object without source, else the
\* newest source.
NewestSource(objs) ==
    IF \E i \in 1..Len(objs) : bld.obj[objs[i]].source_path = NoPath THEN NoFile
    ELSE NewestOf({bld.obj[objs[i]].s_time : i \in 1..Len(objs)})

\* A test that takes a library as old as its newest source for up-to-date.
LibUpToDateOrEqual(force, t_time, o_time) ==
    ~force /\ t_time # NoFile /\ o_time # NoFile /\ t_time >= o_time

\* Lib.build: the library is newer than every source and nothing forces.
LibUpToDate(force, t_time, o_time) ==
    ~force /\ t_time # NoFile /\ o_time # NoFile /\ t_time > o_time

\* The objects reached from the set S over the dependencies.
RECURSIVE Reach(_)
Reach(S) ==
    LET T == S \cup UNION {bld.deps[o] : o \in S}
    IN IF T = S THEN S ELSE Reach(T)

\* The sequences that hold every element of S once.
Orderings(S) ==
    {p \in [1..Cardinality(S) -> S] : \A i, j \in 1..Cardinality(S) : p[i] = p[j] => i = j}

\* builder.get_dependency_graph: the nodes are the objects of the library
\* and everything they depend on, an edge leads from an object to each of
\* its dependencies.
GraphNodes == Reach({bld.objs[i] : i \in 1..Len(bld.objs)})

\* nx.topological_sort: an order in which every edge leads forward.
TopologicalSorts ==
    {p \in Orderings(GraphNodes) :
        \A i, j \in 1..Len(p) : p[j] \in bld.deps[p[i]] => i < j}

\* list(reversed(list(nx.topological_sort(dep_graph)))).
TopoNodes ==
    {[i \in 1..Len(p) |-> p[Len(p) + 1 - i]] : p \in TopologicalSorts}

\* No dependency is waited for.
DepsToWaitNone(o, order) == <<>>

\* obj.obj_dependencies, in the order of the graph's traversal.
DepsToWait(o, order) == SelectSeq(order, LAMBDA d : d \in bld.deps[o])

\* An object list of the compiled objects only.
LinkObjectsCompiledOnly(ext) ==
    [i \in 1..Len(ext) |-> Resolve(ext[i])]
      \o SelectSeq([i \in 1..Len(bld.objs) |-> ObjectFile(bld.objs[i])],
                   LAMBDA f : bld.obj[f[2]].q_task # NoTask)

\* The objects handed to the linker: external_objs resolved, then the
\* object file of every entry of self.objs.
LinkObjects(ext) ==
    [i \in 1..Len(ext) |-> Resolve(ext[i])]
      \o [i \in 1..Len(bld.objs) |-> ObjectFile(bld.objs[i])]

\* Lib.build is left: returned after the link or the skip, or raised.
Leave(b, outcome) == [b EXCEPT !.phase = "idle", !.outcome = outcome]

\* Lib.build is called: the skip, or the graph and its order.
LibBuild(force) ==
    /\ bld.phase = "idle"
    /\ bld.calls = 0
    /\ bld.builds < MaxBuilds
    /\ LET b == [bld EXCEPT !.builds = @ + 1, !.force = force,
                            !.log = <<>>, !.order = <<>>, !.last = NoInvocation,
                            !.invoked = [o \in ObjNames |-> 0], !.links = 0,
                            !.t_before = bld.t_time,
                            !.newest = IF bld.objs = <<>> THEN NoFile
                                       ELSE NewestSource(bld.objs)]
       IN IF bld.objs = <<>> THEN bld' = Leave(b, "ValueError")
          ELSE IF LibUpToDate(force, bld.t_time, NewestSource(bld.objs))
          THEN bld' = Leave(b, "skipped")
          ELSE \E order \in TopoNodes :
                  bld' = [b EXCEPT !.phase = "loop", !.outcome = "running",
                                   !.order = order, !.i = 1]
    /\ UNCHANGED <<passvars, runvars, par>>

\* for obj in topo_nodes: the test of line 104.
LoopHead ==
    /\ bld.phase = "loop"
    /\ IF bld.i > Len(bld.order) THEN bld' = [bld EXCEPT !.phase = "final", !.i = 1]
       ELSE LET o == bld.order[bld.i]
            IN IF bld.obj[o].source_path # NoPath /\ bld.obj[o].q_task = NoTask
               THEN bld' = [bld EXCEPT !.phase = "wait",
                                       !.todo = DepsToWait(o, bld.order)]
               ELSE bld' = [bld EXCEPT !.i = @ + 1]
    /\ UNCHANGED <<passvars, runvars, par>>

\* wait_and_check(dep.q_task) for the next dependency returns.
WaitDep ==
    /\ bld.phase = "wait"
    /\ bld.todo # <<>>
    /\ WaitReturns(bld.obj[Head(bld.todo)].q_task)
    /\ bld' = [bld EXCEPT !.todo = Tail(@),
                          !.log = Append(@, [ev |-> "wait", obj |-> bld.order[bld.i],
                                             on |-> Head(bld.todo)])]
    /\ UNCHANGED <<passvars, runvars, par>>

\* obj.build(..., workqueue=q, force=force) of line 111.
LoopBuild ==
    /\ bld.phase = "wait"
    /\ bld.todo = <<>>
    /\ LET o == bld.order[bld.i]
           res == ObjBuild(o, bld.force, TRUE)
           b == [AfterObjBuild(bld, o, bld.force, TRUE, res) EXCEPT
                   !.invoked[o] = @ + 1,
                   !.log = Append(@, [ev |-> "build", obj |-> o, on |-> o])]
       IN IF res.raised # "none" THEN bld' = Leave(b, res.raised)
          ELSE bld' = [b EXCEPT !.phase = "loop", !.i = @ + 1]
    /\ UNCHANGED <<passvars, runvars, par>>

\* for obj in dep_graph.nodes: wait for the task of every node that has one.
FinalWait ==
    /\ bld.phase = "final"
    /\ IF bld.i > Len(bld.order) THEN bld' = [bld EXCEPT !.phase = "link"]
       ELSE LET o == bld.order[Len(bld.order) + 1 - bld.i]
            IN IF bld.obj[o].q_task = NoTask THEN bld' = [bld EXCEPT !.i = @ + 1]
               ELSE /\ WaitReturns(bld.obj[o].q_task)
                    /\ bld' = [bld EXCEPT !.i = @ + 1,
                                          !.log = Append(@, [ev |-> "waitall", obj |-> o,
                                                             on |-> o])]
    /\ UNCHANGED <<passvars, runvars, par>>

\* compiler.link(target=target, objs=objs, shared=shared).
Link ==
    /\ bld.phase = "link"
    /\ bld' = [Leave(bld, "linked") EXCEPT !.links = @ + 1,
                                          !.linked = LinkObjects(bld.ext),
                                          !.t_time = Now]
    /\ UNCHANGED <<passvars, runvars, par>>

\* The suffixes of the sources, the dependencies and the lists of objects
\* of the libraries built.
SourcePaths ==
    {[a |-> sa, b |-> sb, c |-> ".CC"] : sa \in {NoPath, ".F90", ".txt"}, sb \in {NoPath, ".f90"}}

Dependencies ==
    {[a |-> {"b"}, b |-> {"c"}, c |-> {}],
     [a |-> {"b", "c"}, b |-> {}, c |-> {}]}

\* self.objs of the libraries built, each with the external_objs given to
\* its builds.
Libraries ==
    {[objs |-> <<>>, ext |-> <<>>],
     [objs |-> <<"b", "a">>, ext |-> <<"ext.o">>],
     [objs |-> <<"a", "b", "c">>, ext |-> <<>>]}

\* Objects constructed and not built yet, a library that exists or not.
BuildStart(paths, deps, lib, oa, t) ==
    [phase |-> "idle", outcome |-> "none",
     obj |-> [o \in ObjNames |->
                [source_path |-> paths[o],
                 s_time |-> IF paths[o] = NoPath THEN NoFile
                            ELSE IF o = "a" THEN SourceTime ELSE 1,
                 o_time |-> IF o = "a" THEN oa ELSE NoFile,
                 q_task |-> NoTask]],
     deps |-> [o \in ObjNames |-> IF paths[o] = NoPath THEN {} ELSE deps[o]],
     objs |-> lib.objs, t_time |-> t, tasks |-> <<>>,
     builds |-> 0, calls |-> 0, force |-> FALSE, ext |-> lib.ext,
     order |-> <<>>, i |-> 0, todo |-> <<>>, log |-> <<>>,
     invoked |-> [o \in ObjNames |-> 0], links |-> 0, linked |-> <<>>,
     t_before |-> NoFile, newest |-> NoFile,
     last |-> NoInvocation]

InitBuild ==
    /\ \E paths \in SourcePaths, deps \in Dependencies, lib \in Libraries,
          oa \in 0..MaxTime, t \in 0..MaxTime :
            bld = BuildStart(paths, deps, lib, oa, t)
    /\ config = [check_bounds |-> FALSE, cray_ptr_loc_rhs |-> FALSE,
                 horizontal |-> FALSE, directive |-> "none"]
    /\ prog = [r \in Routines |-> Absent]
    /\ ir = [r \in Routines |->
               [arguments |-> <<>>, variables |-> <<>>, overlays |-> <<>>, body |-> <<>>]]
    /\ trafo_data = [r \in Routines |-> [published |-> FALSE, stack_size |-> ZeroSize]]
    /\ visited = <<>>
    /\ log = <<>>
    /\ frames = <<>>
    /\ events = <<>>
    /\ status = "idle"
    /\ par = ParIdle

NextBuild ==
    \/ \E force \in BOOLEAN : LibBuild(force)
    \/ LoopHead
    \/ WaitDep
    \/ LoopBuild
    \/ FinalWait
    \/ Link
    \/ \E k \in 1..Len(bld.tasks) : TaskFinish(k)
    \/ \E o \in ObjNames, force \in BOOLEAN, wq \in BOOLEAN : ObjBuildCall(o, force, wq)
    \/ \E o \in ObjNames : Construct(o)
    \/ \E o \in ObjNames : Touch(o)

BuildSpec == InitBuild /\ [][NextBuild]_vars

(***************************************************************************)
(* Properties                                                              *)
(***************************************************************************)

VisitedKernels == Visited \cap Kernels

\* The positions of the statements of body that satisfy P, and the k-th of them.
Positions(body, P(_)) == {i \in 1..Len(body) : P(body[i])}
Nth(S, k) == CHOOSE i \in S : Cardinality({j \in S : j < i}) = k - 1

GuardPositions(r) == Positions(ir[r].body, LAMBDA s : s.op = "guard")
AddressPositions(r, t) ==
    Positions(ir[r].body, LAMBDA s : s.op = "assign" /\ s.lhs = PtrName[t])
AdvancePositions(r) ==
    Positions(ir[r].body,
              LAMBDA s : s.op = "assign" /\ s.lhs = StackVarL /\ s.rhs = StackVarL)
UsePositions(r, t) ==
    Positions(ir[r].body, LAMBDA s : s.op = "use" /\ s.lhs = TmpName[t])

\* C1: with bounds checking, the rewritten body of a routine with N pool
\* temporaries holds exactly N overflow guards, the k-th of them after the
\* address assignment of the k-th temporary, before the address assignment
\* of the next one and before every use of the k-th temporary.
C1_GuardPerTemporary ==
    \A r \in VisitedKernels :
        config.check_bounds =>
            LET idxs == PoolTemporaries(r)
                G == GuardPositions(r)
            IN /\ Cardinality(G) = Len(idxs)
               /\ \A k \in 1..Len(idxs) :
                    /\ Cardinality(AddressPositions(r, idxs[k])) = 1
                    /\ \A a \in AddressPositions(r, idxs[k]) : a < Nth(G, k)
                    /\ \A u \in UsePositions(r, idxs[k]) : Nth(G, k) < u
                    /\ k < Len(idxs) =>
                         \A a \in AddressPositions(r, idxs[k + 1]) : Nth(G, k) < a

\* A kernel with two pool temporaries, the second used before the first, has
\* been rewritten with bounds checking.
C1_Witness ==
    /\ config.check_bounds
    /\ "kernel" \in Visited
    /\ Len(PoolTemporaries("kernel")) = 2
    /\ \E u1 \in UsePositions("kernel", 1), u2 \in UsePositions("kernel", 2) : u2 < u1

\* The size of temporary t of routine r as the declaration gives it: the
\* element size, each extent symbol with its exponent, the product of the
\* literal factors.
DeclaredMono(r, t) ==
    LET d == LocalDecl(prog[r].locals[t], r)
        syms == {d.shape[j].sym : j \in 1..Len(d.shape)} \ {""}
    IN Mono(ElementSizeOf(d),
            [v \in {Var(n, NoScope) : n \in syms} |->
                Cardinality({j \in 1..Len(d.shape) : d.shape[j].sym = v.name})])

DeclaredCoef(r, t) == CoefProduct(LocalDecl(prog[r].locals[t], r).shape)

PoolSet(r) == {PoolTemporaries(r)[k] : k \in 1..Len(PoolTemporaries(r))}

\* C2: a routine without calls to participating routines publishes the sum
\* over its pool temporaries of element size times the product of the
\* extents: the published sum has exactly the monomials of the temporaries,
\* each with the added-up coefficient of the temporaries that have it.
C2_OwnSizeIsSumOfTemporaries ==
    \A r \in VisitedKernels :
        TargetCalls(r) = <<>> =>
            LET e == trafo_data[r].stack_size
            IN /\ Len(e.alts) = 1
               /\ e.div = NoSize
               /\ DOMAIN e.alts[1] = {DeclaredMono(r, t) : t \in PoolSet(r)}
               /\ \A m \in DOMAIN e.alts[1] :
                    e.alts[1][m] =
                        SumCounts({t \in PoolSet(r) : DeclaredMono(r, t) = m},
                                  [t \in PoolSet(r) |-> DeclaredCoef(r, t)])

\* A kernel without calls whose two temporaries have different monomials, one
\* of them of two extents, has published its size.
C2_Witness ==
    /\ "kernel" \in Visited
    /\ TargetCalls("kernel") = <<>>
    /\ prog["kernel"].locals = <<"h2", "i2h">>
    /\ Cardinality(DOMAIN trafo_data["kernel"].stack_size.alts[1]) = 2

\* C3: no variable of a published size is attached to a scope, also where
\* the size of a callee has been folded in.
C3_PublishedSizeScopeFree ==
    \A r \in Routines :
        trafo_data[r].published =>
            \A v \in FindVariables(trafo_data[r].stack_size) : v.scope = NoScope

\* kernel has published a size into which the size of kernel2 was folded.
C3_Witness ==
    /\ trafo_data["kernel"].published
    /\ Len(TargetCalls("kernel")) = 1
    /\ \E v \in FindVariables(trafo_data["kernel"].stack_size) : v.name = "klev"
    /\ PoolTemporaries("kernel") = <<>>

\* The sum with the dimension names of routine callee replaced by those of
\* the driver.
InDriverNames(sum, callee) ==
    LET ren(n) == IF n = Dims(callee)[1] THEN Dims("driver")[1]
                  ELSE IF n = Dims(callee)[2] THEN Dims("driver")[2]
                  ELSE n
    IN BagImage(sum,
                [m \in DOMAIN sum |->
                   Mono(m.es, BagImage(m.dims,
                                       [v \in DOMAIN m.dims |-> Var(ren(v.name), NoScope)]))])

IstszStmt == ir["driver"].body[Nth(Positions(ir["driver"].body,
                                              LAMBDA s : s.lhs = StackSizeVar), 1)]

\* C4: a driver that calls two routines one after the other sizes the buffer
\* by the maximum of their two published sizes, written in the driver's
\* names and divided by the buffer's element size, and not by their sum.
C4_SiblingsMax ==
    ("driver" \in Visited /\ Len(TargetCalls("driver")) = 2) =>
        LET c1 == TargetCalls("driver")[1].call.name
            c2 == TargetCalls("driver")[2].call.name
            A == InDriverNames(trafo_data[c1].stack_size.alts[1], c1)
            B == InDriverNames(trafo_data[c2].stack_size.alts[1], c2)
        IN /\ IstszStmt.expr.alts = <<A, B>>
           /\ IstszStmt.expr.div = StackElemSize
           /\ (A # EmptyBag /\ B # EmptyBag) => IstszStmt.expr.alts # <<A (+) B>>

\* The driver of two sibling kernels that both need storage has been sized.
C4_Witness ==
    /\ "driver" \in Visited
    /\ Len(TargetCalls("driver")) = 2
    /\ \A i \in 1..2 : trafo_data[TargetCalls("driver")[i].call.name].stack_size.alts[1] # EmptyBag
    /\ Len(TargetCalls("driver")[1].call.args) = 0

\* Fortran names compare without regard to case.
Lower(n) ==
    CASE n = KwStackL -> "ydstack_l"
      [] n = KwStackU -> "ydstack_u"
      [] n = KwStorage -> "zstack"
      [] OTHER -> n

\* The calls (statements and inline calls) of a body, in order.
CallsOf(body) == SelectSeq(body, LAMBDA s : s.op \in {"call", "inline"})

\* The pairs <<call in the source, the same call after the pass>> of the
\* calls of routine r to participating routines.
ThreadedCalls(r) ==
    LET o == CallsOf(prog[r].body)
        n == CallsOf(ir[r].body)
    IN {<<o[k].call, n[k].call>> : k \in {j \in 1..Len(o) : o[j].call.name \in Targets}}

AppendedKwargs(pair) ==
    SubSeq(pair[2].kwargs, Len(pair[1].kwargs) + 1, Len(pair[2].kwargs))

KwNames(kw) == [j \in 1..Len(kw) |-> kw[j][1]]

\* The dummy arguments a routine has gained.
GainedFormals(r) ==
    SubSeq(ir[r].arguments, Len(Formals(r)) + 1, Len(ir[r].arguments))

\* C5 as stated: a call with positional arguments only gets the stack
\* arguments appended positionally, a call with a keyword argument gets them
\* by keyword.
C5_AppendedInCallStyle ==
    \A r \in Visited : \A p \in ThreadedCalls(r) :
        IF p[1].kwargs = <<>>
        THEN /\ p[2].kwargs = <<>>
             /\ Len(p[2].args) > Len(p[1].args)
             /\ SubSeq(p[2].args, 1, Len(p[1].args)) = p[1].args
        ELSE /\ p[2].args = p[1].args
             /\ Len(p[2].kwargs) > Len(p[1].kwargs)

\* C5, amended: whatever the style of the call, the positional arguments
\* stay as they are and the stack arguments are appended by keyword, the
\* keywords being the names of the dummy arguments the callee has gained.
C5_AppendedByKeyword ==
    \A r \in Visited : \A p \in ThreadedCalls(r) :
        /\ p[2].args = p[1].args
        /\ Len(p[2].kwargs) > Len(p[1].kwargs)
        /\ {Lower(n) : n \in Range(KwNames(AppendedKwargs(p)))}
             = Range(GainedFormals(p[1].name))

\* The driver's call with positional arguments only, the optional one among
\* them, has been rewritten.
C5_Witness ==
    /\ "driver" \in Visited
    /\ \E p \in ThreadedCalls("driver") :
         /\ p[1].kwargs = <<>>
         /\ Len(p[1].args) = 6
         /\ Len(p[2].kwargs) >= 1

ExpectedStackKeywords ==
    <<"YDSTACK_L">>
      \o (IF config.check_bounds THEN <<"YDSTACK_U">> ELSE <<>>)
      \o (IF config.cray_ptr_loc_rhs THEN <<"ZSTACK">> ELSE <<>>)

\* C6: a rewritten call keeps its positional and its keyword arguments as
\* they were and in their order, and has after them the keyword arguments
\* YDSTACK_L, YDSTACK_U (with bounds checking) and ZSTACK (element-counted
\* mode) in this order, with or without an actual argument for the optional
\* dummy argument; no call is added or dropped.
C6_StackKeywordsAppended ==
    \A r \in Visited :
        /\ Len(CallsOf(ir[r].body)) = Len(CallsOf(prog[r].body))
        /\ \A p \in ThreadedCalls(r) :
             /\ p[2].name = p[1].name
             /\ p[2].args = p[1].args
             /\ SubSeq(p[2].kwargs, 1, Len(p[1].kwargs)) = p[1].kwargs
             /\ KwNames(AppendedKwargs(p)) = ExpectedStackKeywords

\* A kernel with an inline call and a mixed-style call that passes the
\* optional argument by keyword has been rewritten in the element-counted
\* mode with bounds checking.
C6_Witness ==
    /\ "kernel" \in Visited
    /\ config.check_bounds /\ config.cray_ptr_loc_rhs
    /\ \E p \in ThreadedCalls("kernel") : p[1].name = "inline_kernel"
    /\ \E p \in ThreadedCalls("kernel") :
         /\ Len(p[1].args) = 4
         /\ Len(p[1].kwargs) = 2
         /\ Len(p[2].kwargs) = 5

DerivedLocals(r) == {t \in 1..Len(prog[r].locals) : prog[r].locals[t] = "dt"}

OverlaidNames(r) == {ir[r].overlays[k][2] : k \in 1..Len(ir[r].overlays)}

AllDone == \A r \in Routines : prog[r].present => r \in Visited

\* C7 as stated: a routine with a local of derived type is left as it was
\* and publishes no frame.
C7_DerivedTypeRoutineUntouched ==
    \A r \in VisitedKernels :
        DerivedLocals(r) # {} =>
            /\ ir[r].arguments = Formals(r)
            /\ ir[r].overlays = <<>>
            /\ ~trafo_data[r].published

\* C7, amended: for a routine with a local of derived type a warning is
\* logged and the locals of derived type stay where they are, but the routine
\* is instrumented like any other (stack dummy arguments, overlays for its
\* other pool temporaries, a published frame), and the pass goes on with the
\* rest of the call tree.
C7_DerivedTypeWarnedAndInstrumented ==
    \A r \in VisitedKernels :
        DerivedLocals(r) # {} =>
            /\ DerivedTypeWarning(r) \in Range(log)
            /\ \A t \in DerivedLocals(r) : TmpName[t] \notin OverlaidNames(r)
            /\ StackArgL \in Range(ir[r].arguments)
            /\ \A t \in 1..Len(prog[r].locals) :
                 prog[r].locals[t] \in {"h1", "h2", "i2h", "lv"} => TmpName[t] \in OverlaidNames(r)
            /\ trafo_data[r].published
            /\ AllDone \/ DriverReady \/ \E k \in Kernels : KernelReady(k)

\* The pass has gone past a kernel whose only local is of derived type.
C7_Witness ==
    /\ prog["kernel"].locals = <<"dt">>
    /\ "kernel" \in Visited
    /\ "driver" \in Visited

HasKeyword(c, k) == \E j \in 1..Len(c.kwargs) : c.kwargs[j][1] = k

\* C8: for kernel with a local array of derived type next to ordinary local
\* arrays the warning is logged and kernel is instrumented all the same:
\* ydstack_l/ydstack_u among its arguments, ylstack_l/ylstack_u among its
\* variables, the stack keywords on its call statement and on its inline
\* call.
C8_DerivedTypeKernelStillThreaded ==
    ("kernel" \in Visited /\ DerivedLocals("kernel") # {}
        /\ \E t \in 1..Len(prog["kernel"].locals) : prog["kernel"].locals[t] = "h1") =>
        /\ DerivedTypeWarning("kernel") \in Range(log)
        /\ StackArgL \in Range(ir["kernel"].arguments)
        /\ StackVarL \in Range(ir["kernel"].variables)
        /\ config.check_bounds =>
             /\ StackArgU \in Range(ir["kernel"].arguments)
             /\ StackVarU \in Range(ir["kernel"].variables)
        /\ \A i \in 1..Len(ir["kernel"].body) :
             ir["kernel"].body[i].op \in {"call", "inline"} =>
                /\ HasKeyword(ir["kernel"].body[i].call, "YDSTACK_L")
                /\ config.check_bounds => HasKeyword(ir["kernel"].body[i].call, "YDSTACK_U")

\* The kernel of test_pool_allocator_more_call_checks, with its call
\* statement and its inline call, has been rewritten.
C8_Witness ==
    /\ "kernel" \in Visited
    /\ prog["kernel"].locals = <<"h1", "h1", "dt">>
    /\ \E i \in 1..Len(ir["kernel"].body) : ir["kernel"].body[i].op = "inline"
    /\ \E i \in 1..Len(ir["kernel"].body) : ir["kernel"].body[i].op = "call"
    /\ config.check_bounds

\* C9: without bounds checking the bound is left out everywhere: a kernel
\* gains ydstack_l and no ydstack_u, has no ylstack_u and no guard, and the
\* rewritten calls pass YDSTACK_L and no YDSTACK_U; with bounds checking base
\* and bound are both added and passed.
C9_BoundOnlyWithBoundsChecking ==
    /\ \A r \in VisitedKernels :
         /\ StackArgL \in Range(ir[r].arguments)
         /\ StackArgU \in Range(ir[r].arguments) <=> config.check_bounds
         /\ StackVarU \in Range(ir[r].variables) <=> config.check_bounds
         /\ ~config.check_bounds =>
              \A i \in 1..Len(ir[r].body) :
                  /\ ir[r].body[i].op # "guard"
                  /\ ir[r].body[i].lhs # StackVarU
    /\ \A r \in Visited : \A p \in ThreadedCalls(r) :
         /\ HasKeyword(p[2], "YDSTACK_L")
         /\ HasKeyword(p[2], "YDSTACK_U") <=> config.check_bounds

\* A kernel with a pool temporary and its driver have been rewritten without
\* bounds checking.
C9_Witness ==
    /\ ~config.check_bounds
    /\ "driver" \in Visited
    /\ Len(PoolTemporaries("kernel")) >= 1
    /\ ThreadedCalls("driver") # {}

\* C10: the body of an instrumented routine starts with the copy of the
\* base and (with bounds checking) of the bound; then, for the pool
\* temporaries in declaration order, the address variable is assigned from
\* the current base, afterwards the base is advanced by the size of that
\* temporary, and only then the next temporary's address is assigned.
C10_CopyThenAddressThenAdvance ==
    \A r \in VisitedKernels :
        LET body == ir[r].body
            idxs == PoolTemporaries(r)
            A == AdvancePositions(r)
            ncopy == IF config.check_bounds THEN 2 ELSE 1
        IN /\ body[1] = Assign(StackVarL, StackArgL)
           /\ config.check_bounds => body[2] = Assign(StackVarU, StackArgU)
           /\ Cardinality(A) = Len(idxs)
           /\ \A k \in 1..Len(idxs) :
                /\ Cardinality(AddressPositions(r, idxs[k])) = 1
                /\ \A a \in AddressPositions(r, idxs[k]) :
                     /\ ncopy < a
                     /\ a < Nth(A, k)
                     /\ body[a].rhs = (IF config.cray_ptr_loc_rhs
                                       THEN "loc(zstack(ylstack_l))" ELSE "ylstack_l")
                /\ DetachScopes(body[Nth(A, k)].expr.alts[1])
                     = (DeclaredMono(r, idxs[k]) :> DeclaredCoef(r, idxs[k]))
                /\ k < Len(idxs) =>
                     \A a \in AddressPositions(r, idxs[k + 1]) : Nth(A, k) < a

\* kernel2 with its two temporaries has been rewritten in the
\* element-counted mode without bounds checking.
C10_Witness ==
    /\ "kernel2" \in Visited
    /\ Len(PoolTemporaries("kernel2")) = 2
    /\ config.cray_ptr_loc_rhs
    /\ ~config.check_bounds

DriverBodyNow == ir["driver"].body
DoPositions == Positions(DriverBodyNow, LAMBDA s : s.op = "do")
CallPositions(body) == Positions(body, LAMBDA s : s.op = "call")

\* The end of the loop that starts at position i of the driver body.
LoopEnd(i) ==
    CHOOSE j \in Positions(DriverBodyNow, LAMBDA s : s.op = "enddo") :
        /\ i < j
        /\ \A k \in Positions(DriverBodyNow, LAMBDA s : s.op = "enddo") : i < k => j <= k

\* C11: the rewritten driver holds one allocation, of zstack(istsz, nb), and
\* one deallocation, whatever the number of block loops; the body of every
\* block loop assigns the seed to ylstack_l and, with bounds checking,
\* ylstack_l + istsz (scaled by the element size) to ylstack_u, and these
\* assignments come before the first call of the loop body.
C11_OneBufferSeedEveryLoop ==
    "driver" \in Visited =>
        LET body == DriverBodyNow
            allocs == Positions(body, LAMBDA s : s.op = "allocate")
            deallocs == Positions(body, LAMBDA s : s.op = "deallocate")
            SeedsL(i) == {j \in (i + 1)..(LoopEnd(i) - 1) :
                             body[j].op = "assign" /\ body[j].lhs = StackVarL}
            SeedsU(i) == {j \in (i + 1)..(LoopEnd(i) - 1) :
                             body[j].op = "assign" /\ body[j].lhs = StackVarU}
            CallsIn(i) == {j \in (i + 1)..(LoopEnd(i) - 1) : body[j].op = "call"}
        IN /\ Cardinality(allocs) = 1
           /\ \A a \in allocs : body[a].lhs = "zstack" /\ body[a].rhs = "istsz,nb"
           /\ Cardinality(deallocs) = 1
           /\ \A a \in deallocs : body[a].lhs = "zstack"
           /\ \A i \in DoPositions :
                /\ Cardinality(SeedsL(i)) = 1
                /\ \A j \in SeedsL(i) :
                     /\ body[j].rhs = (IF config.cray_ptr_loc_rhs THEN "1" ELSE "loc(zstack(1, b))")
                     /\ \A c \in CallsIn(i) : j < c
                /\ Cardinality(SeedsU(i)) = (IF config.check_bounds THEN 1 ELSE 0)
                /\ \A j \in SeedsU(i) :
                     /\ body[j].rhs = (IF config.cray_ptr_loc_rhs THEN "ylstack_l + istsz"
                                       ELSE "ylstack_l + istsz * c_sizeof(real(1, kind=jprb))")
                     /\ \A c \in CallsIn(i) : j < c
                     /\ \A l \in SeedsL(i) : l < j

\* A driver with two block loops has been rewritten with bounds checking.
C11_Witness ==
    /\ "driver" \in Visited
    /\ Cardinality(DoPositions) = 2
    /\ config.check_bounds
    /\ \A i \in DoPositions : \E j \in CallPositions(DriverBodyNow) : i < j /\ j < LoopEnd(i)

MarkerPositions == Positions(prog["driver"].body, LAMBDA s : s = StackInsertPragma)

\* C12: with a stack-insert pragma in the source of the driver, the
\* statements ahead of the pragma stay where they are and the assignment of
\* istsz and the allocation stand in the place of the pragma; without one
\* they are the first two statements of the body, ahead of every statement
\* of the source.
C12_SetupAtMarkerOrHead ==
    "driver" \in Visited =>
        LET body == DriverBodyNow
            src == prog["driver"].body
            p == IF MarkerPositions = {} THEN 1 ELSE Nth(MarkerPositions, 1)
            firstAssign == Nth(Positions(body, LAMBDA s : s.op = "assign"), 1)
        IN /\ SubSeq(body, 1, p - 1) = SubSeq(src, 1, p - 1)
           /\ body[p].op = "assign" /\ body[p].lhs = StackSizeVar
           /\ body[p + 1].op = "allocate"
           /\ \A i \in DoPositions : p + 1 < i
           /\ \A i \in 1..Len(body) : body[i] # StackInsertPragma
           /\ (MarkerPositions # {} /\ src[1] = Assign("a", "1")) => body[firstAssign].lhs = "a"
           /\ MarkerPositions = {} => body[firstAssign].lhs = StackSizeVar

\* A driver whose source has an assignment ahead of the stack-insert pragma
\* has been rewritten.
C12_Witness ==
    /\ "driver" \in Visited
    /\ MarkerPositions # {}
    /\ prog["driver"].body[1] = Assign("a", "1")
    /\ Nth(MarkerPositions, 1) = 2

HasClause(s, name) == \E k \in 1..Len(s.clauses) : s.clauses[k][1] = name

StackWorkingVars == {StackVarL} \cup (IF config.check_bounds THEN {StackVarU} ELSE {})

\* C13: the k-th parallel pragma of the rewritten driver is the k-th one of
\* the source with, in its clauses: a private clause that holds the local
\* stack variables, no local stack variable in firstprivate, every other
\* variable of the source's private and firstprivate clauses still in its
\* clause, and every clause of the source still there.
C13_PragmaDataSharing ==
    ("driver" \in Visited /\ config.directive # "none") =>
        LET old == SelectSeq(prog["driver"].body, IsParallelPragma)
            new == SelectSeq(DriverBodyNow, IsParallelPragma)
        IN /\ Len(new) = Len(old)
           /\ \A k \in 1..Len(old) :
                /\ HasClause(new[k], "private")
                /\ StackWorkingVars \subseteq ClauseVars(new[k], "private")
                /\ ClauseVars(new[k], "firstprivate") \cap StackWorkingVars = {}
                /\ \A c \in {"private", "firstprivate"} :
                     (ClauseVars(old[k], c) \ StackWorkingVars) \subseteq ClauseVars(new[k], c)
                /\ \A j \in 1..Len(old[k].clauses) : HasClause(new[k], old[k].clauses[j][1])

\* An OpenMP driver with a pragma that has private(b) firstprivate(a,
\* ylstack_l) and a pragma without a private clause has been rewritten.
C13_Witness ==
    /\ "driver" \in Visited
    /\ config.directive = "openmp"
    /\ \E i \in 1..Len(prog["driver"].body) :
         /\ IsParallelPragma(prog["driver"].body[i])
         /\ "b" \in ClauseVars(prog["driver"].body[i], "private")
         /\ StackVarL \in ClauseVars(prog["driver"].body[i], "firstprivate")
    /\ \E i \in 1..Len(prog["driver"].body) :
         /\ IsParallelPragma(prog["driver"].body[i])
         /\ ~HasClause(prog["driver"].body[i], "private")

OwnDeclared(r) ==
    LET monos == {DeclaredMono(r, t) : t \in PoolSet(r)}
    IN [m \in monos |->
          SumCounts({t \in PoolSet(r) : DeclaredMono(r, t) = m},
                    [t \in PoolSet(r) |-> DeclaredCoef(r, t)])]

\* The sum with the dimension names of callee replaced by those of caller.
Renamed(sum, callee, caller) ==
    LET ren(n) == IF n = Dims(callee)[1] THEN Dims(caller)[1]
                  ELSE IF n = Dims(callee)[2] THEN Dims(caller)[2]
                  ELSE n
    IN BagImage(sum,
                [m \in DOMAIN sum |->
                   Mono(m.es, BagImage(m.dims,
                                       [v \in DOMAIN m.dims |-> Var(ren(v.name), NoScope)]))])

\* C15: a kernel with one call to a participating routine publishes the sum
\* of its own temporaries' sizes plus the callee's published size written in
\* the kernel's dimension names; a driver with one call sizes the buffer by
\* the published size of the routine it calls, written in the driver's
\* names, which for driver -> kernel -> kernel2 holds the sizes of the
\* temporaries of kernel and of kernel2.
C15_NestedSizeIncluded ==
    /\ \A r \in VisitedKernels :
         Len(TargetCalls(r)) = 1 =>
            LET c == TargetCalls(r)[1].call.name
            IN trafo_data[r].stack_size.alts =
                 <<OwnDeclared(r) (+) Renamed(trafo_data[c].stack_size.alts[1], c, r)>>
    /\ ("driver" \in Visited /\ Len(TargetCalls("driver")) = 1) =>
         LET k == TargetCalls("driver")[1].call.name
         IN /\ IstszStmt.expr.alts = <<Renamed(trafo_data[k].stack_size.alts[1], k, "driver")>>
            /\ Len(TargetCalls(k)) = 1 =>
                 LET c == TargetCalls(k)[1].call.name
                 IN IstszStmt.expr.alts =
                      <<Renamed(OwnDeclared(k), k, "driver")
                          (+) Renamed(OwnDeclared(c), c, "driver")>>

\* The call tree driver -> kernel -> kernel2 of
\* test_pool_allocator_temporaries_kernel_nested has been processed: the
\* size of kernel holds 4 * real * klev * klon, one from kernel's tmp2 and
\* three from kernel2.
C15_Witness ==
    /\ "driver" \in Visited
    /\ Len(TargetCalls("driver")) = 1
    /\ TargetCalls("kernel") # <<>>
    /\ prog["kernel"].locals = <<"h1", "h2", "i2h", "lv">>
    /\ \E m \in DOMAIN trafo_data["kernel"].stack_size.alts[1] :
         /\ trafo_data["kernel"].stack_size.alts[1][m] = 4
         /\ m.dims = SetToBag({Var("klon", NoScope), Var("klev", NoScope)})

\* The type of a local of kind k and whether its leading extent is the
\* horizontal size or a multiple of it, as the declarations of the tests
\* have them.
KindType(k) ==
    CASE k = "i2h" -> "int" [] k = "lv" -> "logical" [] OTHER -> "real"
LeadsWithHorizontal(k) == k \in {"h1", "h2", "h2x2", "i2h"}

\* The element sizes that occur in the size expression e.
ElementSizesIn(e) ==
    UNION {{m.es : m \in DOMAIN e.alts[i]} : i \in DOMAIN e.alts}

\* C16: in the byte-addressed mode the base is advanced for a temporary by
\* its extents times max(c_sizeof, 8) when no horizontal dimension is
\* configured or the leading extent is not built from the horizontal size,
\* and times c_sizeof itself when the leading extent is the horizontal size
\* or a multiple of it; in the element-counted mode neither an advance nor a
\* published size has an element-size factor.
C16_ClampUnlessHorizontalLead ==
    \A r \in VisitedKernels :
        LET idxs == PoolTemporaries(r)
            A == AdvancePositions(r)
        IN /\ \A k \in 1..Len(idxs) :
                LET kind == prog[r].locals[idxs[k]]
                    es == ElementSizesIn(ir[r].body[Nth(A, k)].expr)
                IN IF config.cray_ptr_loc_rhs THEN es = {NoSize}
                   ELSE es = {ElemSize(KindType(kind),
                                       ~config.horizontal \/ ~LeadsWithHorizontal(kind))}
           /\ config.cray_ptr_loc_rhs =>
                ElementSizesIn(trafo_data[r].stack_size) \subseteq {NoSize}
           /\ ~config.cray_ptr_loc_rhs =>
                NoSize \notin ElementSizesIn(trafo_data[r].stack_size)

\* A kernel with an integer array (2*klon) and a logical array (klev) has
\* been rewritten in the byte-addressed mode with the horizontal dimension
\* configured: one element size is clamped, the other is not.
C16_Witness ==
    /\ "kernel" \in Visited
    /\ ~config.cray_ptr_loc_rhs /\ config.horizontal
    /\ prog["kernel"].locals = <<"i2h", "lv">>
    /\ ElementSizesIn(trafo_data["kernel"].stack_size)
         = {ElemSize("int", FALSE), ElemSize("logical", TRUE)}

\* Temporary t of routine r has been moved to the pool: it has an overlay
\* and an address assignment.
Relocated(r, t) ==
    /\ <<PtrName[t], TmpName[t]>> \in Range(ir[r].overlays)
    /\ AddressPositions(r, t) # {}

\* The sum of the coefficients of the published size of r.
PublishedTerms(r) ==
    LET b == trafo_data[r].stack_size.alts[1]
    IN SumCounts(DOMAIN b, b)

\* C17 as stated: a local array is moved to the pool exactly if it is no
\* pointer, not allocatable and not of compile-time constant shape.
C17_RelocatedIffStated ==
    \A r \in VisitedKernels : \A t \in 1..Len(prog[r].locals) :
        Relocated(r, t) <=> prog[r].locals[t] \notin {"lit", "par", "ptr", "alloc"}

\* C17, amended: a local array is moved to the pool (overlay, address
\* assignment, advance of the base, a term of the published size) exactly if
\* it is no pointer, not allocatable, not of derived type and not of
\* compile-time constant shape; no dummy argument is overlaid.
C17_RelocatedIffEligible ==
    \A r \in VisitedKernels :
        LET E == {t \in 1..Len(prog[r].locals) :
                     prog[r].locals[t] \notin {"lit", "par", "ptr", "alloc", "dt"}}
        IN /\ \A t \in 1..Len(prog[r].locals) : Relocated(r, t) <=> t \in E
           /\ Len(ir[r].overlays) = Cardinality(E)
           /\ Cardinality(AdvancePositions(r)) = Cardinality(E)
           /\ TargetCalls(r) = <<>> =>
                PublishedTerms(r) = SumCounts(E, [t \in E |-> DeclaredCoef(r, t)])
           /\ OverlaidNames(r) \cap Range(Formals(r)) = {}

\* A kernel with an eligible array next to arrays of a literal extent, of a
\* named-constant extent, a pointer, an allocatable and an array of derived
\* type has been rewritten.
C17_Witness ==
    /\ "kernel" \in Visited
    /\ prog["kernel"].locals = ExclusionLocals
    /\ Relocated("kernel", 1)
    /\ PublishedTerms("kernel") = 1

CallEvents == {i \in 1..Len(events) : events[i].kind = "call"}
ReturnEvents == {i \in 1..Len(events) : events[i].kind = "return"}

\* The call that the return at position i of events ends.
CallOf(i) ==
    LET C == {j \in CallEvents : j < i /\ events[j].depth = events[i].depth - 1}
    IN CHOOSE j \in C : \A k \in C : k <= j

\* What the declared pool temporaries of routine r take, with the extents
\* that env gives.
OwnBytes(r, env) == EvalSum(DOMAIN OwnDeclared(r), OwnDeclared(r), env)

\* C18: at every call of the run the callee receives as its base the
\* caller's working base and, with bounds checking, as its bound the
\* caller's working bound; in a kernel the working bound is the bound the
\* kernel received, so that every routine called in the iteration of one
\* block receives the same bound, and the working base is the base the
\* kernel received advanced by the sizes of all its pool temporaries.
C18_CalleeContinuesFromCaller ==
    \A i \in CallEvents :
        LET e == events[i]
        IN /\ e.callee_env[StackArgL] = e.caller_env[StackVarL]
           /\ config.check_bounds => e.callee_env[StackArgU] = e.caller_env[StackVarU]
           /\ e.caller # "driver" =>
                /\ config.check_bounds => e.caller_env[StackVarU] = e.caller_env[StackArgU]
                /\ e.caller_env[StackVarL]
                     = e.caller_env[StackArgL] + OwnBytes(e.caller, e.caller_env)
           /\ config.check_bounds =>
                \A j \in CallEvents :
                    events[j].block = e.block =>
                        events[j].callee_env[StackArgU] = e.callee_env[StackArgU]

\* kernel, which has carved its four temporaries, calls kernel2 in a run
\* with bounds checking: the base it passes lies beyond the one it received.
C18_Witness ==
    \E i \in CallEvents :
        /\ events[i].caller = "kernel"
        /\ events[i].callee = "kernel2"
        /\ config.check_bounds
        /\ Len(PoolTemporaries("kernel")) = 4
        /\ events[i].callee_env[StackArgL] > events[i].caller_env[StackArgL]
        /\ events[i].block = 2

\* C19 as stated: after a call has returned the caller goes on from the
\* point at which the callee left the buffer.
C19_CallerContinuesWhereCalleeLeft ==
    \A i \in ReturnEvents :
        events[i].caller_env[StackVarL] = events[i].callee_env[StackVarL]

\* C19, amended: after a call has returned the caller's working base and
\* bound are what they were when the call was made: they are not reset to
\* what the caller received, and they are not moved by the callee, which
\* advances a copy of its own; the buffer is used up along the nesting of
\* the calls only, the base a routine receives never lying before the base
\* its caller received.
C19_CallerBaseAsBeforeCall ==
    /\ \A i \in ReturnEvents :
         LET before == events[CallOf(i)].caller_env
             after == events[i].caller_env
         IN /\ after[StackVarL] = before[StackVarL]
            /\ after[StackVarU] = before[StackVarU]
            /\ events[i].caller # "driver" =>
                 after[StackVarL] = after[StackArgL] + OwnBytes(events[i].caller, after)
    /\ \A i \in CallEvents :
         events[i].caller # "driver" =>
            events[i].callee_env[StackArgL] >= events[i].caller_env[StackArgL]

\* A callee that has moved its own base has returned to the driver, and the
\* driver has made its next call in the same iteration.
C19_Witness ==
    \E i \in ReturnEvents : \E j \in CallEvents :
        /\ i < j
        /\ events[i].caller = "driver" /\ events[j].caller = "driver"
        /\ events[i].block = events[j].block
        /\ events[i].callee_env[StackVarL] > events[i].callee_env[StackArgL]

\* The base with which the iteration of block b starts.
SeedValue(b, env) ==
    IF config.cray_ptr_loc_rhs THEN 1
    ELSE BufferAddress + (b - 1) * env["istsz"] * 8

\* C20: every call that the driver makes in the iteration of one block
\* passes the base that was seeded for this iteration, whatever the
\* routines called before it in the iteration have carved; two calls made
\* by one routine in one iteration pass the same base.
C20_SiblingsFromSeededBase ==
    /\ \A i \in CallEvents :
         events[i].caller = "driver" =>
            events[i].callee_env[StackArgL] = SeedValue(events[i].block, events[i].caller_env)
    /\ \A i \in CallEvents : \A j \in CallEvents :
         (events[i].caller = events[j].caller /\ events[i].block = events[j].block
            /\ events[i].depth = events[j].depth) =>
            events[i].callee_env[StackArgL] = events[j].callee_env[StackArgL]

\* The driver has called kernel, which has carved its temporaries and
\* returned, and then kernel2 in the iteration of the second block.
C20_Witness ==
    \E i \in CallEvents : \E j \in CallEvents : \E k \in ReturnEvents :
        /\ i < k /\ k < j
        /\ events[i].caller = "driver" /\ events[j].caller = "driver"
        /\ events[i].callee = "kernel" /\ events[j].callee = "kernel2"
        /\ events[k].callee = "kernel"
        /\ events[k].callee_env[StackVarL] > events[k].callee_env[StackArgL]
        /\ events[i].block = 2 /\ events[j].block = 2

\* The address just behind the part of the buffer that belongs to the block
\* of the running iteration: the seeded base plus the span of istsz elements.
ColumnEnd ==
    SeedValue(frames[1].env["b"], frames[1].env)
      + frames[1].env["istsz"] * EsBytes(StackElemSize)

PublishedNeed(r, env) ==
    LET a == trafo_data[r].stack_size.alts
    IN MaxOf([k \in 1..Len(a) |-> EvalSum(DOMAIN a[k], a[k], env)])

ColumnStart(b) ==
    BufferAddress + (b - 1) * par.shared["istsz"] * EsBytes(ElemSize("real", FALSE))
ColumnStop(b) ==
    BufferAddress + b * par.shared["istsz"] * EsBytes(ElemSize("real", FALSE))

Overlap(x, y) == x.lo < y.hi /\ y.lo < x.hi

\* The regions carved by different iterations of one loop do not overlap,
\* every call passes the first element of the column of its own block as
\* the base, and the regions of R lie in that column.
StripedWithin(R) ==
    /\ \A x \in R : \A y \in R :
         (x.loop = y.loop /\ x.block # y.block) => ~Overlap(x, y)
    /\ \A c \in par.calls : c.base = ColumnStart(c.block)
    /\ \A x \in R : ColumnStart(x.block) <= x.lo /\ x.hi <= ColumnStop(x.block)

C23_DisjointWithinBound == StripedWithin({x \in par.regions : x.hi <= x.bound})

\* The routine that the step processes, if it processes one.
Processed(r) == visited' = Append(visited, r)

\* C24: in a run of the pass every step that processes a routine processes
\* one that has not been processed before and whose participating callees
\* have all been processed and have their entry in the side table; the
\* entry of a kernel is made by the step that processes the kernel, and no
\* step changes an entry that has been made.
C24_OncePublishedBeforeRead ==
    [][/\ \A r \in Routines :
            Processed(r) =>
                /\ r \notin Visited
                /\ \A c \in Callees(r) \cap Targets :
                      c \in Visited /\ trafo_data[c].published
                /\ r \in Kernels =>
                      ~trafo_data[r].published /\ trafo_data'[r].published
       /\ \A r \in Routines :
            trafo_data[r].published => trafo_data'[r] = trafo_data[r]
       /\ \A r \in Routines :
            (trafo_data'[r] # trafo_data[r]) => Processed(r)]_vars

\* The pass is through with the driver, kernel and kernel2, kernel calling
\* kernel2: kernel2 came first, the driver last, each once.
C24_Witness ==
    /\ visited = <<"kernel2", "kernel", "driver">>
    /\ "kernel2" \in Callees("kernel")
    /\ \A r \in {"kernel", "kernel2"} : trafo_data[r].published

\* The driver's source allocates the buffer itself.
BringsOwnStack ==
    \E i \in 1..Len(prog["driver"].body) :
        prog["driver"].body[i].op = "allocate" /\ prog["driver"].body[i].lhs = StackStorage

\* How often name n is declared in the rewritten driver.
Declarations(n) ==
    Cardinality({i \in 1..Len(ir["driver"].variables) : ir["driver"].variables[i] = n})

\* C25: a driver that declares istsz, zstack and the local stack variables
\* itself and holds the allocation, the seed and the deallocation of the
\* buffer keeps them after the pass: every statement of its source other
\* than the calls is where and what it was, there is one allocation and one
\* deallocation of zstack and one assignment of istsz (the source's), the
\* first assignments in the block loop are the one seed of ylstack_l and the
\* one of ylstack_u, istsz, zstack and ylstack_l are declared once, and the
\* call has the stack keyword arguments of the generated case.
C25_DeclaredStackReused ==
    ("driver" \in Visited /\ BringsOwnStack) =>
        LET body == DriverBodyNow
            src == prog["driver"].body
            Of(op, n) == Positions(body, LAMBDA s : s.op = op /\ s.lhs = n)
        IN /\ Len(body) = Len(src)
           /\ \A i \in 1..Len(src) : src[i].op # "call" => body[i] = src[i]
           /\ Cardinality(Of("allocate", StackStorage)) = 1
           /\ Cardinality(Of("deallocate", StackStorage)) = 1
           /\ Cardinality(Of("assign", StackSizeVar)) = 1
           /\ \A i \in Of("assign", StackSizeVar) : body[i].expr = UserStackSize
           /\ \A i \in DoPositions :
                /\ body[i + 1].op = "assign" /\ body[i + 1].lhs = StackVarL
                /\ body[i + 1].rhs = (IF config.cray_ptr_loc_rhs THEN "1"
                                      ELSE "loc(zstack(1, b))")
                /\ body[i + 2].op = "assign" /\ body[i + 2].lhs = StackVarU
                /\ Of("assign", StackVarL) \cap (i..LoopEnd(i)) = {i + 1}
                /\ Of("assign", StackVarU) \cap (i..LoopEnd(i)) = {i + 2}
           /\ \A n \in {StackSizeVar, StackStorage, StackVarL} : Declarations(n) = 1
           /\ Declarations(StackVarU) = (IF config.check_bounds THEN 1 ELSE 0)
           /\ \A p \in ThreadedCalls("driver") :
                AppendedKwargs(p)
                  = <<<<"YDSTACK_L", "ylstack_l">>>>
                      \o (IF config.check_bounds
                          THEN <<<<"YDSTACK_U", "ylstack_u">>>> ELSE <<>>)
                      \o (IF config.cray_ptr_loc_rhs
                          THEN <<<<"ZSTACK", "zstack(:,b)">>>> ELSE <<>>)

\* A driver with its own buffer has been rewritten with bounds checking in
\* the element-counted mode, its kernel holding a pool temporary.
C25_Witness ==
    /\ "driver" \in Visited
    /\ BringsOwnStack
    /\ config.check_bounds
    /\ config.cray_ptr_loc_rhs
    /\ PoolTemporaries("kernel") # <<>>
    /\ ThreadedCalls("driver") # {}

\* Where object o stands in the order of the build.
PlaceOf(o) == CHOOSE i \in 1..Len(bld.order) : bld.order[i] = o

\* This step of Lib.build submits the compilation of o to the work queue.
Submits(o) ==
    /\ bld.phase = "wait"
    /\ Len(bld'.tasks) = Len(bld.tasks) + 1
    /\ bld'.tasks[Len(bld'.tasks)].obj = o

\* C26: Lib.build goes through the objects in an order in which every
\* object comes after the objects it depends on, and in the step that
\* submits the compilation of an object wait_and_check has returned for
\* each of its dependencies since the object's turn began and no task that
\* compiles one of its dependencies is unfinished.
C26_SubmitAfterDependencies ==
    [][/\ \A i, j \in 1..Len(bld'.order) :
             bld'.order[j] \in bld'.deps[bld'.order[i]] => j < i
       /\ \A o \in ObjNames :
             Submits(o) =>
                 /\ o = bld.order[bld.i]
                 /\ \A d \in bld.deps[o] :
                      /\ PlaceOf(d) < PlaceOf(o)
                      /\ \E k \in 1..Len(bld.log) :
                            bld.log[k].ev = "wait" /\ bld.log[k].obj = o /\ bld.log[k].on = d
                      /\ \A k \in Pending : bld.tasks[k].obj # d]_vars

\* An object has been submitted after the wait for the task of one of its
\* dependencies, itself submitted in this build.
C26_Witness ==
    \E i, j \in 1..Len(bld.log) :
        /\ i < j
        /\ bld.log[i].ev = "wait"
        /\ bld.obj[bld.log[i].on].q_task # NoTask
        /\ bld.log[j].ev = "build"
        /\ bld.log[j].obj = bld.log[i].obj
        /\ bld.obj[bld.log[j].obj].q_task # NoTask

\* The last Lib.build has been left: by the skip, after the link, or by an
\* exception.
Left == bld.phase = "idle" /\ bld.builds > 0
Skipped == Left /\ bld.outcome = "skipped"
Raised == Left /\ bld.outcome \in {"KeyError", "ValueError", "RuntimeError"}
Returned == Left /\ bld.outcome = "linked"

\* wait_and_check has been called in the closing loop for every node of the
\* graph that has a task, and every task has finished.
AllTasksAwaited ==
    /\ \A o \in GraphNodes :
          bld.obj[o].q_task # NoTask =>
              \E k \in 1..Len(bld.log) : bld.log[k].ev = "waitall" /\ bld.log[k].obj = o
    /\ Pending = {}

LibBuildCalled == bld'.builds = bld.builds + 1

\* C28: Lib.build returns at once, with nothing compiled and nothing linked,
\* exactly when force is false, the library file exists, every object of
\* the library has a source_path and the library's modification time is
\* greater than that of every source; equal times do not count as
\* up-to-date. Any other build that returns has linked.
C28_SkipIffUpToDate ==
    [][LibBuildCalled =>
          /\ bld'.outcome = "skipped" <=>
                /\ ~bld'.force
                /\ bld.t_time # NoFile
                /\ bld.objs # <<>>
                /\ \A i \in 1..Len(bld.objs) :
                      /\ bld.obj[bld.objs[i]].source_path # NoPath
                      /\ bld.t_time > bld.obj[bld.objs[i]].s_time
          /\ bld'.outcome = "skipped" =>
                /\ bld'.phase = "idle"
                /\ bld'.tasks = bld.tasks /\ bld'.obj = bld.obj
                /\ bld'.t_time = bld.t_time /\ bld'.links = 0
          /\ bld'.outcome \notin {"skipped", "ValueError"} => bld'.phase = "loop"]_vars

\* A build without force of a library of two objects is skipped after the
\* library was built.
C28_Witness ==
    /\ Skipped
    /\ ~bld.force
    /\ bld.builds = 2
    /\ Len(bld.objs) = 2

\* Obj.build has been invoked; what is known of the last invocation.
Invoked == bld.last # NoInvocation

\* The invocation found the object file newer than the source, unforced.
FoundUpToDate(v) == ~v.force /\ v.o_time # NoFile /\ v.o_time > v.s_time

\* The invocation dispatched nothing and left q_task and the queue alone.
NothingDispatched(v) ==
    /\ v.cmds = <<>>
    /\ ~v.ran
    /\ v.q_after = v.q_before
    /\ Len(v.tasks) = v.n_tasks

\* C29 as stated: for an object with a source file Obj.build dispatches
\* exactly one compile command unless it finds the object file up-to-date.
C29_DispatchesUnlessUpToDate ==
    (Invoked /\ bld.last.source_path # NoPath /\ ~FoundUpToDate(bld.last))
        => Len(bld.last.cmds) = 1

\* C29: Obj.build raises RuntimeError and dispatches nothing for an object
\* without source file, raises KeyError and dispatches nothing for a source
\* whose lower-cased suffix is no key of MODEMAP, and otherwise dispatches
\* nothing and leaves q_task as it is when force is false and the object
\* file exists and is newer than the source, and else dispatches exactly
\* one compile command: to the work queue, the task stored in q_task, when
\* a work queue is given, and synchronously, q_task left alone, when not.
C29_OneCompileUnlessUpToDate ==
    Invoked =>
        LET v == bld.last
        IN CASE v.source_path = NoPath ->
                  v.raised = "RuntimeError" /\ NothingDispatched(v)
             [] v.source_path \notin {NoPath, ".f90", ".F90", ".CC"} ->
                  v.raised = "KeyError" /\ NothingDispatched(v)
             [] OTHER ->
                  /\ v.raised = "none"
                  /\ IF FoundUpToDate(v) THEN NothingDispatched(v)
                     ELSE /\ Len(v.cmds) = 1
                          /\ v.cmds[1].source = v.obj
                          /\ v.cmds[1].target = <<"build_dir", v.obj, ".o">>
                          /\ v.cmds[1].mode = (IF v.source_path = ".CC" THEN "c" ELSE "f90")
                          /\ IF v.wq
                             THEN /\ ~v.ran
                                  /\ Len(v.tasks) = v.n_tasks + 1
                                  /\ v.q_after = Len(v.tasks)
                                  /\ v.q_after # NoTask
                                  /\ v.tasks[v.q_after] = [obj |-> v.obj, done |-> FALSE]
                             ELSE /\ v.ran
                                  /\ v.q_after = v.q_before
                                  /\ Len(v.tasks) = v.n_tasks

\* Obj.build without force has sent the compilation of an object whose
\* object file is as old as its source to the work queue.
C29_Witness ==
    /\ Invoked
    /\ bld.last.wq
    /\ ~bld.last.force
    /\ bld.last.o_time = bld.last.s_time
    /\ Len(bld.last.cmds) = 1
    /\ bld.obj[bld.last.obj].q_task = bld.last.q_after

\* C30: when a Lib.build that was not skipped has returned, Obj.build has
\* been invoked in it exactly once on every object of the dependency graph
\* that has a source file, in a first build and in every later build on
\* the same objects, whatever q_task an earlier build left.
C30_EverySourceBuiltOnce ==
    Returned =>
        \A o \in GraphNodes : bld.obj[o].source_path # NoPath => bld.invoked[o] = 1

====
